---- MODULE Spec2Model ----
(***************************************************************************)
(* Food-ordering demo on two stores: MariaDB (relational) and MongoDB      *)
(* (documents).  The model covers the order lifecycle handlers             *)
(* (place_order, pay, assign_delivery) of both modes, the transaction      *)
(* wrapper withTx and the SQL -> document transform of one order.          *)
(*                                                                         *)
(* A money value (a DECIMAL(10,2) column, a JS number) is kept in mills,    *)
(* 1/1000 of the currency unit, so that priceToCents has something to      *)
(* round; the handlers' own arithmetic is in integer cents, as in the code.*)
(* Timestamps are readings of one clock that advances at every reading;    *)
(* 0 is SQL NULL / JSON null for a timestamp or an id.                     *)
(***************************************************************************)
EXTENDS Integers, Sequences, FiniteSets, TLC

\* ------------------------------------------------------------------ bounds
NumProcs == 2        \* requests in flight at the same time
MaxRequests == 2     \* requests started in one behaviour
MaxItems == 2        \* items of one place_order request
AllocRequests == 6   \* requests started in one behaviour of the id-allocation race
MaxAdminOps == 2     \* migrations and resets started in one behaviour

Procs == 1..NumProcs

Null == [null |-> TRUE]

\* ------------------------------------------------------- reference data
\* person / customer / rider rows as the demo generator names them.
SqlPerson ==
  { [personId |-> 1, email |-> "customer1@example.com", role |-> "customer"],
    [personId |-> 2, email |-> "rider1@example.com", role |-> "rider"],
    [personId |-> 3, email |-> "rider2@example.com", role |-> "rider"] }

\* restaurant rows: the first two fixed names of the demo generator.
SqlRestaurant ==
  { [restaurantId |-> 1, name |-> "Figlmueller"],
    [restaurantId |-> 2, name |-> "Plachutta"] }

\* menu_item rows; price in mills.  Rows 1..3 are a part of the two fixed
\* menus of the demo generator.  Rows 4 and 5 are two rows of one restaurant
\* with one name: the table has no unique key on (restaurant_id, name), the
\* generator writes no such pair, and place_order has a branch for it.
SqlMenuItem ==
  { [menuItemId |-> 1, restaurantId |-> 1, name |-> "Beer", price |-> 4500],
    [menuItemId |-> 2, restaurantId |-> 2, name |-> "Tafelspitz Classic", price |-> 24000],
    [menuItemId |-> 3, restaurantId |-> 2, name |-> "Coffee", price |-> 3500],
    [menuItemId |-> 4, restaurantId |-> 2, name |-> "Soup", price |-> 5000],
    [menuItemId |-> 5, restaurantId |-> 2, name |-> "Soup", price |-> 6500] }

OrderStatuses == {"created", "preparing", "ready", "completed"}
DeliveryStatuses == {"created", "assigned", "picked_up", "delivered"}
PayMethods == {"card", "cash"}

\* Request bodies.  "" is a missing field, 9 an id no order has,
\* nobody@example.com an email no person has.
PayInputs ==
  ({1, 2} \X PayMethods) \cup { << 9, "card" >>, << 1, "" >> }

\* items of a relational place_order, by id or by name
SqlGoodItems ==
  << [ menuItemId |-> 2, name |-> "", quantity |-> 2 ],
     [ menuItemId |-> 0, name |-> "Coffee", quantity |-> 3 ] >>

\* refused: quantity 0, a menu item of the other restaurant, an unknown name,
\* neither id nor name
SqlBadItems ==
  { [ menuItemId |-> 0, name |-> "Coffee", quantity |-> 0 ],
    [ menuItemId |-> 1, name |-> "", quantity |-> 1 ],
    [ menuItemId |-> 0, name |-> "Beer", quantity |-> 1 ],
    [ menuItemId |-> 0, name |-> "", quantity |-> 1 ] }

\* items of a document place_order: the caller gives name and price (mills)
MongoGoodItems ==
  << [ menuItemId |-> 0, name |-> "Special", quantity |-> 3, unitPrice |-> 105 ],
     [ menuItemId |-> 2, name |-> "Tafelspitz Classic", quantity |-> 2,
       unitPrice |-> 9500 ] >>

\* refused: no name, quantity 0, a negative price
MongoBadItems ==
  { [ menuItemId |-> 0, name |-> "", quantity |-> 1, unitPrice |-> 1000 ],
    [ menuItemId |-> 3, name |-> "Coffee", quantity |-> 0, unitPrice |-> 3500 ],
    [ menuItemId |-> 3, name |-> "Coffee", quantity |-> 1, unitPrice |-> -3500 ] }

\* Item lists of 1..MaxItems accepted items, alternating between the two
\* items of `good`, and lists whose last item is one of `bad`.
ItemLists(good, bad) ==
  { [ i \in 1..n |-> good[1 + ((i + k) % 2)] ] : n \in 1..MaxItems, k \in 0..1 }
    \cup { << b >> : b \in bad }
    \cup { << good[1], b >> : b \in bad }

\* bodies of place_order: customerEmail, restaurantName, items
PlaceInputs(good, bad) ==
  ({"customer1@example.com"} \X {"Plachutta"} \X ItemLists(good, bad))
    \cup { << "customer1@example.com", "Plachutta", << >> >>,
           << "nobody@example.com", "Plachutta", << good[1] >> >>,
           << "customer1@example.com", "Nowhere", << good[1] >> >> }

AssignInputs ==
  ({"rider1@example.com", "rider2@example.com"} \X {1, 2} \X DeliveryStatuses)
    \cup { << "nobody@example.com", 1, "assigned" >>,
            << "rider1@example.com", 9, "assigned" >>,
            << "rider1@example.com", 1, "" >> }


\* ------------------------------------------------------------------ state
VARIABLES
  sqlOrder,        \* committed rows of `order`
  sqlItem,         \* committed rows of order_item
  sqlPayment,      \* committed rows of payment
  sqlDelivery,     \* committed rows of delivery
  sqlAuto,         \* AUTO_INCREMENT counters per table
  mongoPeople,     \* documents of people
  mongoRestaurants,\* documents of restaurants
  mongoOrders,     \* documents of orders
  mongoOid,        \* next store-generated _id
  clock,           \* next reading of new Date() / $$NOW
  req,             \* per process: the request it handles and its locals
  started,         \* number of requests started
  mongoPaid,       \* orderIds a document-mode pay has updated (history)
  mongoMeta,       \* the document { _id: "migration" } of meta, or Null
  mig,             \* the migration in progress: its position and its snapshot
  rst,             \* the reset in progress: its position
  adminOps,        \* number of migrations and resets started
  lastMig          \* history: what the last completed migration left

vars == << sqlOrder, sqlItem, sqlPayment, sqlDelivery, sqlAuto,
           mongoPeople, mongoRestaurants, mongoOrders, mongoOid,
           clock, req, started, mongoPaid, mongoMeta, mig, rst, adminOps, lastMig >>

sqlVars == << sqlOrder, sqlItem, sqlPayment, sqlDelivery, sqlAuto >>
mongoVars == << mongoPeople, mongoRestaurants, mongoOrders, mongoOid >>
admVars == << mongoMeta, mig, rst, adminOps, lastMig >>

\* ------------------------------------------------------------ pure helpers
RECURSIVE SumSeq(_)
SumSeq(s) == IF s = << >> THEN 0 ELSE Head(s) + SumSeq(Tail(s))

RECURSIVE SetSum(_, _)
\* sum of f[x] over a finite set
SetSum(S, f) ==
  IF S = {} THEN 0
  ELSE LET x == CHOOSE y \in S : TRUE IN f[x] + SetSum(S \ {x}, f)

MaxOf(S) == CHOOSE x \in S : \A y \in S : y <= x

\* priceToCents: Math.round(n * 100) of a non-negative number n (in mills).
priceToCents(price) == (price + 5) \div 10

\* centsToAmount: Number((cents / 100).toFixed(2)), the number (in mills)
\* with two decimals that stands for a whole number of cents.
centsToAmount(cents) == cents * 10

\* ------------------------------------------------- SQL -> document transform
RECURSIVE ItemsOf(_)
\* order_item rows in ORDER BY order_item_id, as the embedded orderItems array
ItemsOf(rows) ==
  IF rows = {} THEN << >>
  ELSE LET r == CHOOSE x \in rows : \A y \in rows : x.orderItemId <= y.orderItemId
           mi == { m \in SqlMenuItem : m.menuItemId = r.menuItemId }
       IN << [ menuItemId |-> r.menuItemId,
               name |-> IF mi = {} THEN "" ELSE (CHOOSE m \in mi : TRUE).name,
               quantity |-> r.quantity,
               unitPrice |-> r.unitPrice ] >> \o ItemsOf(rows \ {r})

PersonDoc(p) == [ personId |-> p.personId, type |-> p.role, email |-> p.email ]

\* an order document that never embeds the rider
RiderSnapshot_None(personId) == Null

RiderSnapshot(personId) ==
  LET ps == { p \in SqlPerson : p.personId = personId }
  IN IF personId = 0 \/ ps = {} THEN Null
     ELSE LET p == CHOOSE x \in ps : TRUE
          IN [ personId |-> p.personId, email |-> p.email ]

\* One order of readSqlSnapshot: the order row LEFT JOINed with its payment
\* and delivery, with its items, restaurant, customer and rider embedded.
OrderDoc(o, items, payments, deliveries, oid) ==
  LET pay == { x \in payments : x.orderId = o.orderId }
      del == { x \in deliveries : x.orderId = o.orderId }
      rs  == { r \in SqlRestaurant : r.restaurantId = o.restaurantId }
      cs  == { c \in SqlPerson : c.personId = o.customerId }
  IN [ _id |-> oid,
       orderId |-> o.orderId,
       createdAt |-> o.createdAt,
       status |-> o.status,
       totalAmount |-> o.totalAmount,
       restaurant |-> IF rs = {} THEN Null
                      ELSE LET r == CHOOSE x \in rs : TRUE
                           IN [ restaurantId |-> r.restaurantId, name |-> r.name ],
       customer |-> IF cs = {} THEN Null
                    ELSE LET c == CHOOSE x \in cs : TRUE
                         IN [ personId |-> c.personId, email |-> c.email ],
       orderItems |-> ItemsOf({ i \in items : i.orderId = o.orderId }),
       payment |-> IF pay = {} THEN Null
                   ELSE LET x == CHOOSE y \in pay : TRUE
                        IN [ paymentId |-> x.paymentId, amount |-> x.amount,
                             method |-> x.method, paidAt |-> x.paidAt ],
       delivery |-> IF del = {} THEN Null
                    ELSE LET x == CHOOSE y \in del : TRUE
                         IN [ deliveryId |-> x.deliveryId,
                              deliveryStatus |-> x.deliveryStatus,
                              assignedAt |-> x.assignedAt,
                              rider |-> RiderSnapshot(x.riderId) ] ]

\* The orders collection after insertMany(sql.orders): _ids are given in
\* ORDER BY order_id starting at firstOid.
MigratedOrders(orders, items, payments, deliveries, firstOid) ==
  { OrderDoc(o, items, payments, deliveries,
             firstOid + Cardinality({ x \in orders : x.orderId < o.orderId }))
    : o \in orders }

\* a document without its _id
StripId(d) == [ k \in (DOMAIN d) \ {"_id"} |-> d[k] ]

\* What a completed migration left in the store, the relational tables at
\* that time, and how many requests and admin operations had started by then.
MigrationResult(restaurants, people, orders, meta, nreq, nadmin, tables) ==
  [ restaurants |-> restaurants, people |-> people, sql |-> tables,
    orders |-> { StripId(d) : d \in orders },
    migrated |-> meta.migrated, started |-> nreq, adminOps |-> nadmin ]

\* ------------------------------------------------------------- requests
\* The locals of one request handler; status 0 while no response was sent.
Idle ==
  [ kind |-> "idle", pc |-> "idle", email |-> "", restaurant |-> "",
    orderId |-> 0, arg |-> "", items |-> << >>, idx |-> 0, now |-> 0,
    existing |-> Null, totalCents |-> 0, attempt |-> 0, nextId |-> 0,
    amount |-> 0, dups |-> 0, txOrder |-> {}, txItem |-> {}, status |-> 0,
    error |-> "", out |-> Null, sawPaid |-> FALSE, riderId |-> 0,
    sawAssigned |-> FALSE, restaurantId |-> 0, from |-> 0, to |-> 0 ]

Free(p) == req[p].pc \in {"idle", "done"}

\* A request is taken by the first free slot: which slot serves it makes no
\* difference to the program.
Slot(p) == Free(p) /\ \A q \in Procs : q < p => ~Free(q)

\* The handlers of one mode touch only that mode's store, so a behaviour
\* runs requests of one mode: a request of a mode arrives only while every
\* request on record is of that mode.
SqlKinds == {"sqlPlace", "sqlPay", "sqlAssign"}
MongoKinds == {"mongoPlace", "mongoPay", "mongoAssign"}

OneMode(kinds) == \A q \in Procs : req[q].kind \in kinds \cup {"idle"}

\* The response is sent; the handler's other locals are gone.
Respond(r, status, error) ==
  [ Idle EXCEPT !.kind = r.kind, !.pc = "done", !.orderId = r.orderId,
                !.arg = r.arg, !.sawPaid = r.sawPaid,
                !.email = r.email, !.restaurant = r.restaurant,
                !.sawAssigned = r.sawAssigned,
                !.from = r.from, !.to = r.to,
                !.idx = r.idx,
                !.dups = r.dups, !.attempt = r.attempt,
                !.status = status, !.error = error ]

\* ------------------------------------------------------------------ Init
\* The state after import_reset, one place_order in SQL mode and a
\* migration: one generated order (paid, any status, with or without a
\* delivery), one placed order (unpaid), and their documents.
DemoDeliveries ==
  { {},
    { [ deliveryId |-> 1, orderId |-> 1, riderId |-> 0, assignedAt |-> 0,
        deliveryStatus |-> "created" ] },
    { [ deliveryId |-> 1, orderId |-> 1, riderId |-> 2, assignedAt |-> 3,
        deliveryStatus |-> "picked_up" ] } }

InitOrders(st) ==
  { [ orderId |-> 1, customerId |-> 1, restaurantId |-> 2, createdAt |-> 1,
      status |-> st, totalAmount |-> 48000 ],
    [ orderId |-> 2, customerId |-> 1, restaurantId |-> 2, createdAt |-> 4,
      status |-> "created", totalAmount |-> 7000 ] }

InitItems ==
  { [ orderItemId |-> 1, orderId |-> 1, menuItemId |-> 2, quantity |-> 2,
      unitPrice |-> 24000 ],
    [ orderItemId |-> 2, orderId |-> 2, menuItemId |-> 3, quantity |-> 2,
      unitPrice |-> 3500 ] }

InitPayments ==
  { [ paymentId |-> 1, orderId |-> 1, amount |-> 48000, method |-> "card",
      paidAt |-> 2 ] }

InitWith(statuses, deliveries) ==
  \E st \in statuses, del \in deliveries :
    /\ sqlOrder = InitOrders(st)
    /\ sqlItem = InitItems
    /\ sqlPayment = InitPayments
    /\ sqlDelivery = del
    /\ sqlAuto = [ order |-> 3, item |-> 3, payment |-> 2,
                   delivery |-> 1 + Cardinality(del) ]
    /\ mongoPeople = { PersonDoc(p) : p \in SqlPerson }
    /\ mongoRestaurants = SqlRestaurant
    /\ mongoOrders = MigratedOrders(InitOrders(st), InitItems, InitPayments, del, 1)
    /\ mongoOid = 3
    /\ clock = 5
    /\ req = [ p \in Procs |-> Idle ]
    /\ started = 0
    /\ mongoPaid = {}
    /\ mongoMeta = [ lastMigrationAt |-> 4,
                     migrated |-> [ restaurants |-> Cardinality(SqlRestaurant),
                                    people |-> Cardinality(SqlPerson),
                                    orders |-> 2 ] ]
    /\ mig = [ pc |-> "idle", snap |-> Null, cleared |-> {},
               inserted |-> [ restaurants |-> 0, people |-> 0, orders |-> 0 ] ]
    /\ rst = [ pc |-> "idle", todo |-> {} ]
    /\ adminOps = 0
    /\ lastMig = MigrationResult(mongoRestaurants, mongoPeople, mongoOrders,
                                 mongoMeta, 0, 0, sqlVars)

Init == InitWith(OrderStatuses, DemoDeliveries)

\* ------------------------------------------------------------ withTx
\* What the committed table holds after conn.commit() / conn.rollback() of a
\* transaction whose uncommitted rows are txRows.
TxCommit(table, txRows) == table \cup txRows

\* a rollback that keeps the rows written so far
TxRollback_KeepsRows(table, txRows) == table \cup txRows

TxRollback(table, txRows) == table

\* $ifNull / IFNULL on a timestamp or id (null is 0) and on a text (null is "")
IfNull(v, d) == IF v = 0 THEN d ELSE v

IfNullText(v, d) == IF v = "" THEN d ELSE v

\* ------------------------------------------------------------- SQL pay
\* the conflict check left out
AlreadyPaid_NoCheck(existing) == FALSE

\* existing.length && existing[0].paidAt != null
AlreadyPaid(existing) == existing # Null /\ existing.paidAt # 0

\* UPDATE `order` SET status = IF(status = 'created', 'preparing', status)
SqlPayStatus(status) == IF status = "created" THEN "preparing" ELSE status

\* paid_at = IFNULL(paid_at, ?)
SqlPaidAt(paidAt, now) == IfNull(paidAt, now)

\* The request arrives: validation, then the two SELECTs of the transaction
\* (one consistent snapshot) and the conflict check.
SqlPayRead(p, orderId, method) ==
  LET r == [ Idle EXCEPT !.kind = "sqlPay", !.orderId = orderId, !.arg = method,
                         !.sawPaid = \E x \in sqlPayment :
                                       x.orderId = orderId /\ x.paidAt # 0 ]
      orders == { o \in sqlOrder : o.orderId = orderId }
      pays == { x \in sqlPayment : x.orderId = orderId }
      existing == IF pays = {} THEN Null ELSE CHOOSE x \in pays : TRUE
  IN /\ Slot(p)
     /\ started' = started + 1
     /\ req' = [ req EXCEPT ![p] =
          IF method = "" THEN Respond(r, 400, "paymentMethod is required")
          ELSE IF orders = {} THEN Respond(r, 404, "order not found")
          ELSE IF AlreadyPaid(existing) THEN Respond(r, 409, "order already paid")
          ELSE [ r EXCEPT !.pc = "sp_write", !.existing = existing,
                          !.amount = (CHOOSE o \in orders : TRUE).totalAmount ] ]
     /\ UNCHANGED << sqlVars, mongoVars, clock, mongoPaid >>
     /\ UNCHANGED admVars

\* INSERT or UPDATE of the payment row, the status UPDATE and the commit.  A
\* writer waits for the row lock of an earlier writer of the same order, so
\* the writes of one transaction and its commit are one step.
SqlPayWrite(p) ==
  LET r == req[p]
      now == clock
      dup == \E x \in sqlPayment : x.orderId = r.orderId
      inserted == sqlPayment \cup
        { [ paymentId |-> sqlAuto.payment, orderId |-> r.orderId,
            amount |-> r.amount, method |-> r.arg, paidAt |-> now ] }
      updated ==
        { IF x.orderId = r.orderId
          THEN [ x EXCEPT !.amount = r.amount, !.method = r.arg,
                          !.paidAt = SqlPaidAt(x.paidAt, now) ]
          ELSE x : x \in sqlPayment }
      orders == { IF o.orderId = r.orderId
                  THEN [ o EXCEPT !.status = SqlPayStatus(o.status) ]
                  ELSE o : o \in sqlOrder }
  IN /\ r.kind = "sqlPay" /\ r.pc = "sp_write"
     /\ clock' = clock + 1
     /\ IF r.existing = Null /\ dup
        THEN \* duplicate key on payment.order_id: the callback throws
             /\ sqlPayment' = TxRollback(sqlPayment, {})
             /\ sqlOrder' = TxRollback(sqlOrder, {})
             /\ sqlAuto' = [ sqlAuto EXCEPT !.payment = @ + 1 ]
             /\ req' = [ req EXCEPT ![p] = Respond(r, 500, "ER_DUP_ENTRY") ]
        ELSE /\ sqlPayment' = IF r.existing = Null THEN inserted ELSE updated
             /\ sqlOrder' = orders
             /\ sqlAuto' = IF r.existing = Null
                           THEN [ sqlAuto EXCEPT !.payment = @ + 1 ]
                           ELSE sqlAuto
             /\ req' = [ req EXCEPT ![p] =
                  [ Respond(r, 200, "") EXCEPT !.out =
                      LET x == CHOOSE y \in sqlPayment' : y.orderId = r.orderId
                      IN [ amount |-> x.amount, method |-> x.method,
                           paidAt |-> x.paidAt ] ] ]
     /\ UNCHANGED << sqlItem, sqlDelivery, mongoVars, started, mongoPaid >>
     /\ UNCHANGED admVars

\* -------------------------------------------------- Mongo order filter
\* the filter left empty: every document matches
MongoMatchOrder_NoFilter(coll, orderId) == coll

\* the documents matched by the filter { orderId }
MongoMatchOrder(coll, orderId) == { d \in coll : d.orderId = orderId }

\* ----------------------------------------------------------- Mongo pay
\* the status set without the $cond
MongoPayStatus_Always(status) == "preparing"

\* status: { $cond: [{ $eq: ["$status", "created"] }, "preparing", "$status"] }
MongoPayStatus(status) == IF status = "created" THEN "preparing" ELSE status

\* paidAt set without the $ifNull
MongoPaidAt_Overwrite(paidAt, now) == now

\* paidAt: { $ifNull: ["$payment.paidAt", "$$NOW"] }
MongoPaidAt(paidAt, now) == IfNull(paidAt, now)

\* method set without the $ifNull
MongoPayMethod_Overwrite(method, paymentMethod) == paymentMethod

\* method: { $ifNull: ["$payment.method", paymentMethod] }
MongoPayMethod(method, paymentMethod) == IfNullText(method, paymentMethod)

RECURSIVE SeqSum(_, _)
\* sum of f[i] over the indices of a sequence
SeqSum(q, f) == IF q = << >> THEN 0 ELSE f[Len(q)] + SeqSum(SubSeq(q, 1, Len(q) - 1), f)

\* the amount summed from the unit prices of the items, without the quantities
MongoPayAmount_UnitPrices(d) ==
  SeqSum(d.orderItems, [ i \in 1..Len(d.orderItems) |-> d.orderItems[i].unitPrice ])

\* amount: "$totalAmount"
MongoPayAmount(d) == d.totalAmount

\* The $set stage of the update pipeline, applied to the matched document.
MongoPayDoc(d, paymentMethod, now) ==
  [ d EXCEPT
      !.status = MongoPayStatus(d.status),
      !.payment =
        [ paymentId |-> IF d.payment = Null THEN 0 ELSE d.payment.paymentId,
          amount |-> MongoPayAmount(d),
          method |-> MongoPayMethod(IF d.payment = Null THEN "" ELSE d.payment.method,
                                    paymentMethod),
          paidAt |-> MongoPaidAt(IF d.payment = Null THEN 0 ELSE d.payment.paidAt,
                                 now) ] ]

\* The request arrives: validation, then
\* updateOne({ orderId }, [ { $set: ... } ]), one atomic document update.
MongoPayUpdate(p, orderId, method) ==
  LET r == [ Idle EXCEPT !.kind = "mongoPay", !.orderId = orderId, !.arg = method ]
      match == MongoMatchOrder(mongoOrders, orderId)
  IN /\ Slot(p)
     /\ started' = started + 1
     /\ IF method = "" \/ match = {}
        THEN /\ req' = [ req EXCEPT ![p] =
                  IF method = "" THEN Respond(r, 400, "paymentMethod is required")
                  ELSE Respond(r, 404, "order not found in mongo") ]
             /\ UNCHANGED << mongoOrders, clock, mongoPaid >>
        ELSE LET d == CHOOSE x \in match : TRUE
             IN /\ mongoOrders' = (mongoOrders \ {d}) \cup { MongoPayDoc(d, method, clock) }
                /\ clock' = clock + 1
                /\ mongoPaid' = mongoPaid \cup { orderId }
                /\ req' = [ req EXCEPT ![p] =
                     [ r EXCEPT !.pc = "mp_read",
                                !.sawPaid = d.payment # Null /\ d.payment.paidAt # 0 ] ]
     /\ UNCHANGED << sqlVars, mongoPeople, mongoRestaurants, mongoOid >>
     /\ UNCHANGED admVars

\* findOne({ orderId }) and the response
MongoPayRead(p) ==
  LET r == req[p]
      match == MongoMatchOrder(mongoOrders, r.orderId)
      updated == CHOOSE x \in match : TRUE
  IN /\ r.kind = "mongoPay" /\ r.pc = "mp_read"
     /\ req' = [ req EXCEPT ![p] =
          IF match = {} \/ updated.payment = Null \/ updated.payment.paidAt = 0
          THEN Respond(r, 500, "payment update failed")
          ELSE [ Respond(r, 200, "") EXCEPT !.out =
                   [ status |-> updated.status, amount |-> updated.payment.amount,
                     method |-> updated.payment.method,
                     paidAt |-> updated.payment.paidAt ] ] ]
     /\ UNCHANGED << sqlVars, mongoVars, clock, started, mongoPaid >>
     /\ UNCHANGED admVars

\* ------------------------------------------------- SQL assign_delivery
\* the timestamp kept without looking at the row that was read
SqlAssignedAt_Overwrite(existingAssignedAt, now) == now

\* assignedAtWasNull ? now : existing[0].assignedAt
SqlAssignedAt(existingAssignedAt, now) ==
  IF existingAssignedAt = 0 THEN now ELSE existingAssignedAt

\* The request arrives: validation, then the SELECTs of the transaction (rider
\* by email, order, existing delivery: one consistent snapshot) and new Date().
SqlAssignRead(p, riderEmail, orderId, deliveryStatus) ==
  LET dels == { x \in sqlDelivery : x.orderId = orderId }
      existing == IF dels = {} THEN Null ELSE CHOOSE x \in dels : TRUE
      r == [ Idle EXCEPT !.kind = "sqlAssign", !.email = riderEmail,
                         !.orderId = orderId, !.arg = deliveryStatus,
                         !.sawAssigned = existing # Null /\ existing.assignedAt # 0 ]
      riders == { x \in SqlPerson : x.role = "rider" /\ x.email = riderEmail }
      orders == { o \in sqlOrder : o.orderId = orderId }
  IN /\ Slot(p)
     /\ started' = started + 1
     /\ IF deliveryStatus = "" \/ riders = {} \/ orders = {}
        THEN /\ req' = [ req EXCEPT ![p] =
                  IF deliveryStatus = "" THEN Respond(r, 400, "deliveryStatus is required")
                  ELSE IF riders = {} THEN Respond(r, 404, "rider not found")
                  ELSE Respond(r, 404, "order not found") ]
             /\ clock' = clock
        ELSE /\ req' = [ req EXCEPT ![p] =
                  [ r EXCEPT !.pc = "sa_write", !.now = clock, !.existing = existing,
                             !.riderId = (CHOOSE x \in riders : TRUE).personId ] ]
             /\ clock' = clock + 1
     /\ UNCHANGED << sqlVars, mongoVars, mongoPaid >>
     /\ UNCHANGED admVars

\* a delivered delivery keeps its status
SqlDeliveryStatus_NoBackward(current, requested) ==
  IF current = "delivered" THEN current ELSE requested

\* delivery_status = ? of the UPDATE: the requested status, whatever the
\* current one
SqlDeliveryStatus(current, requested) == requested

\* INSERT or UPDATE of the delivery row, the final SELECT and the commit.  The
\* UPDATE acts on the row as committed now and writes the assigned_at that
\* was computed from the row as read.
SqlAssignWrite(p) ==
  LET r == req[p]
      dup == \E x \in sqlDelivery : x.orderId = r.orderId
      inserted == sqlDelivery \cup
        { [ deliveryId |-> sqlAuto.delivery, orderId |-> r.orderId,
            riderId |-> r.riderId, assignedAt |-> r.now,
            deliveryStatus |-> r.arg ] }
      updated ==
        { IF x.orderId = r.orderId
          THEN [ x EXCEPT !.riderId = r.riderId,
                          !.assignedAt = SqlAssignedAt(r.existing.assignedAt, r.now),
                          !.deliveryStatus =
                             SqlDeliveryStatus(x.deliveryStatus, r.arg) ]
          ELSE x : x \in sqlDelivery }
  IN /\ r.kind = "sqlAssign" /\ r.pc = "sa_write"
     /\ IF r.existing = Null /\ dup
        THEN \* duplicate key on delivery.order_id: the callback throws
             /\ sqlDelivery' = TxRollback(sqlDelivery, {})
             /\ sqlAuto' = [ sqlAuto EXCEPT !.delivery = @ + 1 ]
             /\ req' = [ req EXCEPT ![p] = Respond(r, 500, "ER_DUP_ENTRY") ]
        ELSE /\ sqlDelivery' = IF r.existing = Null THEN inserted ELSE updated
             /\ sqlAuto' = IF r.existing = Null
                           THEN [ sqlAuto EXCEPT !.delivery = @ + 1 ]
                           ELSE sqlAuto
             /\ req' = [ req EXCEPT ![p] =
                  [ Respond(r, 200, "") EXCEPT !.out =
                      LET x == CHOOSE y \in sqlDelivery' : y.orderId = r.orderId
                      IN [ deliveryId |-> x.deliveryId, riderId |-> x.riderId,
                           deliveryStatus |-> x.deliveryStatus,
                           assignedAt |-> x.assignedAt ] ] ]
     /\ UNCHANGED << sqlOrder, sqlItem, sqlPayment, mongoVars, clock, started,
                     mongoPaid >>
     /\ UNCHANGED admVars

\* ----------------------------------------------- Mongo assign_delivery
\* assignedAt: { $ifNull: ["$$existing.assignedAt", "$$NOW"] }
MongoAssignedAt(assignedAt, now) == IfNull(assignedAt, now)

\* deliveryId: { $ifNull: ["$$existing.deliveryId", "$orderId"] }
MongoDeliveryId(deliveryId, orderId) == IfNull(deliveryId, orderId)

\* the rider written only when the delivery has none
MongoAssignDoc_KeepRider(d, rider, deliveryStatus, now) ==
  [ d EXCEPT !.delivery =
      [ deliveryId |-> IF d.delivery = Null THEN d.orderId ELSE d.delivery.deliveryId,
        deliveryStatus |-> deliveryStatus,
        rider |-> IF d.delivery = Null \/ d.delivery.rider = Null
                  THEN [ personId |-> rider.personId, email |-> rider.email ]
                  ELSE d.delivery.rider,
        assignedAt |-> IF d.delivery = Null \/ d.delivery.assignedAt = 0
                       THEN now ELSE d.delivery.assignedAt ] ]

\* The $set stage: $mergeObjects of the existing delivery (or {}) with the
\* four fields the request writes.
MongoAssignDoc(d, rider, deliveryStatus, now) ==
  [ d EXCEPT !.delivery =
      [ deliveryId |-> MongoDeliveryId(IF d.delivery = Null THEN 0
                                       ELSE d.delivery.deliveryId, d.orderId),
        deliveryStatus |-> deliveryStatus,
        rider |-> [ personId |-> rider.personId, email |-> rider.email ],
        assignedAt |-> MongoAssignedAt(IF d.delivery = Null THEN 0
                                       ELSE d.delivery.assignedAt, now) ] ]

\* The request arrives: validation, then findOne({ type: "rider", email }).
MongoAssignRider(p, riderEmail, orderId, deliveryStatus) ==
  LET r == [ Idle EXCEPT !.kind = "mongoAssign", !.email = riderEmail,
                         !.orderId = orderId, !.arg = deliveryStatus ]
      riders == { x \in mongoPeople : x.type = "rider" /\ x.email = riderEmail }
  IN /\ Slot(p)
     /\ started' = started + 1
     /\ req' = [ req EXCEPT ![p] =
          IF deliveryStatus = "" THEN Respond(r, 400, "deliveryStatus is required")
          ELSE IF riders = {} THEN Respond(r, 404, "rider not found")
          ELSE [ r EXCEPT !.pc = "ma_update",
                          !.existing = CHOOSE x \in riders : TRUE ] ]
     /\ UNCHANGED << sqlVars, mongoVars, clock, mongoPaid >>
     /\ UNCHANGED admVars

\* updateOne({ orderId }, [ { $set: { delivery: ... } } ]) and the response
MongoAssignUpdate(p) ==
  LET r == req[p]
      match == MongoMatchOrder(mongoOrders, r.orderId)
  IN /\ r.kind = "mongoAssign" /\ r.pc = "ma_update"
     /\ IF match = {}
        THEN /\ req' = [ req EXCEPT ![p] = Respond(r, 404, "order not found in mongo") ]
             /\ UNCHANGED << mongoOrders, clock >>
        ELSE LET d == CHOOSE x \in match : TRUE
                 e == MongoAssignDoc(d, r.existing, r.arg, clock)
             IN /\ mongoOrders' = (mongoOrders \ {d}) \cup {e}
                /\ clock' = clock + 1
                /\ req' = [ req EXCEPT ![p] =
                     [ Respond(r, 200, "") EXCEPT
                         !.riderId = r.existing.personId,
                         !.sawAssigned = d.delivery # Null /\ d.delivery.assignedAt # 0,
                         !.now = e.delivery.assignedAt ] ]
     /\ UNCHANGED << sqlVars, mongoPeople, mongoRestaurants, mongoOid, started,
                     mongoPaid >>
     /\ UNCHANGED admVars

\* --------------------------------------------------- SQL place_order
\* priceToCents(unitPrice, ...) * quantity
SqlLineCents(unitPrice, quantity) == priceToCents(unitPrice) * quantity

\* the lookup by name with LIMIT 1: the first row of the name is taken
SqlResolveItem_FirstMatch(it, restaurantId) ==
  LET byId == { m \in SqlMenuItem :
                  m.menuItemId = it.menuItemId /\ m.restaurantId = restaurantId }
      byName == { m \in SqlMenuItem :
                    m.restaurantId = restaurantId /\ m.name = it.name }
  IN IF it.quantity <= 0
       THEN [ status |-> 400, error |-> "quantity must be a positive integer" ]
     ELSE IF it.menuItemId = 0 /\ it.name = ""
       THEN [ status |-> 400, error |-> "must include menuItemId or menuItemName" ]
     ELSE IF it.menuItemId # 0
       THEN IF byId = {} THEN [ status |-> 404, error |-> "menu item not found" ]
            ELSE [ status |-> 0, row |-> CHOOSE m \in byId : TRUE ]
     ELSE IF byName = {} THEN [ status |-> 404, error |-> "menu item not found" ]
     ELSE [ status |-> 0,
            row |-> CHOOSE m \in byName :
                      \A x \in byName : m.menuItemId <= x.menuItemId ]

\* The menu_item row an item resolves to, or the error the lookup raises:
\* by id within the restaurant (LIMIT 1), else by name within the restaurant
\* (LIMIT 2; two rows are refused).
SqlResolveItem(it, restaurantId) ==
  LET byId == { m \in SqlMenuItem :
                  m.menuItemId = it.menuItemId /\ m.restaurantId = restaurantId }
      byName == { m \in SqlMenuItem :
                    m.restaurantId = restaurantId /\ m.name = it.name }
  IN IF it.quantity <= 0
       THEN [ status |-> 400, error |-> "quantity must be a positive integer" ]
     ELSE IF it.menuItemId = 0 /\ it.name = ""
       THEN [ status |-> 400, error |-> "must include menuItemId or menuItemName" ]
     ELSE IF it.menuItemId # 0
       THEN IF byId = {} THEN [ status |-> 404, error |-> "menu item not found" ]
            ELSE [ status |-> 0, row |-> CHOOSE m \in byId : TRUE ]
     ELSE IF byName = {} THEN [ status |-> 404, error |-> "menu item not found" ]
     ELSE IF Cardinality(byName) > 1
       THEN [ status |-> 400, error |-> "menu item name is not unique" ]
     ELSE [ status |-> 0, row |-> CHOOSE m \in byName : TRUE ]

\* The request arrives: validation, beginTransaction, the customer and the
\* restaurant SELECTs, new Date() and the INSERT of the order with total 0.
\* The AUTO_INCREMENT value is taken whether or not the transaction commits.
SqlPlaceBegin(p, customerEmail, restaurantName, items) ==
  LET r == [ Idle EXCEPT !.kind = "sqlPlace", !.email = customerEmail,
                         !.restaurant = restaurantName, !.items = items ]
      customers == { x \in SqlPerson : x.role = "customer" /\ x.email = customerEmail }
      restaurants == { x \in SqlRestaurant : x.name = restaurantName }
  IN /\ Slot(p)
     /\ started' = started + 1
     /\ IF items = << >> \/ customers = {} \/ restaurants = {}
        THEN /\ req' = [ req EXCEPT ![p] =
                  IF items = << >> THEN Respond(r, 400, "items must be a non-empty array")
                  ELSE IF customers = {} THEN Respond(r, 404, "customer not found")
                  ELSE Respond(r, 404, "restaurant not found") ]
             /\ UNCHANGED << clock, sqlAuto >>
        ELSE /\ req' = [ req EXCEPT ![p] =
                  [ r EXCEPT
                      !.pc = "so_item", !.idx = 1, !.now = clock,
                      !.orderId = sqlAuto.order,
                      !.restaurantId = (CHOOSE x \in restaurants : TRUE).restaurantId,
                      !.txOrder =
                        { [ orderId |-> sqlAuto.order,
                            customerId |-> (CHOOSE x \in customers : TRUE).personId,
                            restaurantId |-> (CHOOSE x \in restaurants : TRUE).restaurantId,
                            createdAt |-> clock, status |-> "created",
                            totalAmount |-> 0 ] } ] ]
             /\ clock' = clock + 1
             /\ sqlAuto' = [ sqlAuto EXCEPT !.order = @ + 1 ]
     /\ sqlOrder' = TxRollback(sqlOrder, {})
     /\ UNCHANGED << sqlItem, sqlPayment, sqlDelivery, mongoVars, mongoPaid >>
     /\ UNCHANGED admVars

\* One turn of the item loop: resolve the menu item, add the line to the
\* total, INSERT the order_item row; a throw rolls the transaction back.
SqlPlaceItem(p) ==
  LET r == req[p]
      it == r.items[r.idx]
      res == SqlResolveItem(it, r.restaurantId)
      row == [ orderItemId |-> sqlAuto.item, orderId |-> r.orderId,
               menuItemId |-> res.row.menuItemId, quantity |-> it.quantity,
               unitPrice |-> res.row.price ]
  IN /\ r.kind = "sqlPlace" /\ r.pc = "so_item"
     /\ IF res.status # 0
        THEN /\ req' = [ req EXCEPT ![p] = Respond(r, res.status, res.error) ]
             /\ sqlAuto' = sqlAuto
        ELSE /\ req' = [ req EXCEPT ![p] =
                  [ r EXCEPT
                      !.totalCents = @ + SqlLineCents(res.row.price, it.quantity),
                      !.txItem = @ \cup {row},
                      !.idx = @ + 1,
                      !.pc = IF r.idx = Len(r.items) THEN "so_commit" ELSE "so_item" ] ]
             /\ sqlAuto' = [ sqlAuto EXCEPT !.item = @ + 1 ]
     /\ sqlOrder' = IF res.status # 0 THEN TxRollback(sqlOrder, r.txOrder) ELSE sqlOrder
     /\ sqlItem' = IF res.status # 0 THEN TxRollback(sqlItem, r.txItem) ELSE sqlItem
     /\ UNCHANGED << sqlPayment, sqlDelivery, mongoVars, clock, started, mongoPaid >>
     /\ UNCHANGED admVars

\* UPDATE `order` SET total_amount = centsToAmount(totalCents), then commit.
SqlPlaceCommit(p) ==
  LET r == req[p]
      totalAmount == centsToAmount(r.totalCents)
      orders == { [ o EXCEPT !.totalAmount = totalAmount ] : o \in r.txOrder }
  IN /\ r.kind = "sqlPlace" /\ r.pc = "so_commit"
     /\ sqlOrder' = TxCommit(sqlOrder, orders)
     /\ sqlItem' = TxCommit(sqlItem, r.txItem)
     /\ req' = [ req EXCEPT ![p] =
          [ Respond(r, 200, "") EXCEPT
              !.out = [ orderId |-> r.orderId, totalAmount |-> totalAmount,
                        status |-> "created" ] ] ]
     /\ UNCHANGED << sqlPayment, sqlDelivery, sqlAuto, mongoVars, clock, started,
                     mongoPaid >>
     /\ UNCHANGED admVars

\* A statement of an open place_order transaction fails in the store: the
\* callback throws and withTx rolls back.
SqlStoreError(p) ==
  LET r == req[p]
  IN /\ r.kind = "sqlPlace" /\ r.pc \in {"so_item", "so_commit"}
     /\ sqlOrder' = TxRollback(sqlOrder, r.txOrder)
     /\ sqlItem' = TxRollback(sqlItem, r.txItem)
     /\ req' = [ req EXCEPT ![p] = Respond(r, 500, "store error") ]
     /\ UNCHANGED << sqlPayment, sqlDelivery, sqlAuto, mongoVars, clock, started,
                     mongoPaid >>
     /\ UNCHANGED admVars

\* ------------------------------------------------- Mongo place_order
MaxAttempts == 5

\* the line computed from the unrounded price
MongoLineCents_Unrounded(unitPrice, quantity) == priceToCents(unitPrice * quantity)

\* unitPriceCents * quantity
MongoLineCents(unitPrice, quantity) == priceToCents(unitPrice) * quantity

\* toPositiveInt(quantity), priceToCents(unitPrice) and the name check
MongoItemBad(it) == it.quantity <= 0 \/ it.unitPrice < 0 \/ it.name = ""

\* items.map(...): the normalized item, with the rounded unit price
MongoNormalizeItem(it) ==
  [ menuItemId |-> it.menuItemId, name |-> it.name, quantity |-> it.quantity,
    unitPrice |-> centsToAmount(priceToCents(it.unitPrice)) ]

RECURSIVE MongoTotalCents(_)
MongoTotalCents(items) ==
  IF items = << >> THEN 0
  ELSE MongoLineCents(Head(items).unitPrice, Head(items).quantity)
         + MongoTotalCents(Tail(items))

\* the unique index on orderId ignored
MongoDuplicateKey_NoIndex(coll, orderId) == FALSE

\* insertOne against the unique index idx_orders_orderId_unique (E11000)
MongoDuplicateKey(coll, orderId) == \E d \in coll : d.orderId = orderId

\* the loop left running past its bound
MongoMoreAttempts_Unbounded(attempt) == TRUE

\* for ( let attempt = 0; attempt < 5; attempt++ )
MongoMoreAttempts(attempt) == attempt < MaxAttempts

\* The request arrives: validation, the customer and restaurant lookups, the
\* items' normalization, the total and new Date().
MongoPlaceBegin(p, customerEmail, restaurantName, items) ==
  LET r == [ Idle EXCEPT !.kind = "mongoPlace", !.email = customerEmail,
                         !.restaurant = restaurantName ]
      customers == { x \in mongoPeople :
                       x.type = "customer" /\ x.email = customerEmail }
      restaurants == { x \in mongoRestaurants : x.name = restaurantName }
      bad == \E i \in 1..Len(items) : MongoItemBad(items[i])
  IN /\ Slot(p)
     /\ started' = started + 1
     /\ IF items = << >> \/ customers = {} \/ restaurants = {} \/ bad
        THEN /\ req' = [ req EXCEPT ![p] =
                  IF items = << >> THEN Respond(r, 400, "items must be a non-empty array")
                  ELSE IF customers = {} THEN Respond(r, 404, "customer not found")
                  ELSE IF restaurants = {} THEN Respond(r, 404, "restaurant not found")
                  ELSE Respond(r, 400, "invalid item") ]
             /\ clock' = clock
        ELSE /\ req' = [ req EXCEPT ![p] =
                  [ r EXCEPT
                      !.pc = "mo_find", !.now = clock,
                      !.items = [ i \in 1..Len(items) |-> MongoNormalizeItem(items[i]) ],
                      !.totalCents = MongoTotalCents(items),
                      !.restaurantId = (CHOOSE x \in restaurants : TRUE).restaurantId,
                      !.riderId = (CHOOSE x \in customers : TRUE).personId ] ]
             /\ clock' = clock + 1
     /\ UNCHANGED << sqlVars, mongoVars, mongoPaid >>
     /\ UNCHANGED admVars

\* findOne({}, { sort: { orderId: -1 } }) and nextId = baseId + 1
MongoPlaceFind(p) ==
  LET r == req[p]
      baseId == IF mongoOrders = {} THEN 0
                ELSE MaxOf({ d.orderId : d \in mongoOrders })
  IN /\ r.kind = "mongoPlace" /\ r.pc = "mo_find"
     /\ req' = [ req EXCEPT ![p] = [ r EXCEPT !.pc = "mo_insert", !.nextId = baseId + 1 ] ]
     /\ UNCHANGED << sqlVars, mongoVars, clock, started, mongoPaid >>
     /\ UNCHANGED admVars

\* insertOne: the document is added, or the unique index rejects it and the
\* loop goes on while attempts are left.
MongoPlaceInsert(p) ==
  LET r == req[p]
      doc == [ _id |-> mongoOid, orderId |-> r.nextId, createdAt |-> r.now,
               status |-> "created",
               totalAmount |-> centsToAmount(r.totalCents),
               restaurant |-> [ restaurantId |-> r.restaurantId, name |-> r.restaurant ],
               customer |-> [ personId |-> r.riderId, email |-> r.email ],
               orderItems |-> r.items, payment |-> Null, delivery |-> Null ]
  IN /\ r.kind = "mongoPlace" /\ r.pc = "mo_insert"
     /\ IF MongoDuplicateKey(mongoOrders, r.nextId)
        THEN /\ req' = [ req EXCEPT ![p] =
                  IF MongoMoreAttempts(r.attempt + 1)
                  THEN [ r EXCEPT !.pc = "mo_find", !.attempt = @ + 1, !.dups = @ + 1 ]
                  ELSE Respond([ r EXCEPT !.attempt = @ + 1, !.dups = @ + 1 ],
                               500, "could not allocate a unique orderId") ]
             /\ UNCHANGED << mongoOrders, mongoOid >>
        ELSE /\ mongoOrders' = mongoOrders \cup {doc}
             /\ mongoOid' = mongoOid + 1
             /\ req' = [ req EXCEPT ![p] =
                  [ Respond([ r EXCEPT !.orderId = r.nextId ], 200, "") EXCEPT
                      !.out = [ orderId |-> r.nextId,
                                totalAmount |-> centsToAmount(r.totalCents),
                                status |-> "created" ] ] ]
     /\ UNCHANGED << sqlVars, mongoPeople, mongoRestaurants, clock, started,
                     mongoPaid >>
     /\ UNCHANGED admVars

\* findOne or insertOne fails with an error that is no duplicate key: the
\* handler throws at once and nothing was inserted.
MongoStoreError(p) ==
  LET r == req[p]
  IN /\ r.kind = "mongoPlace" /\ r.pc \in {"mo_find", "mo_insert"}
     /\ req' = [ req EXCEPT ![p] = Respond(r, 500, "store error") ]
     /\ UNCHANGED << sqlVars, mongoVars, clock, started, mongoPaid >>
     /\ UNCHANGED admVars

\* ------------------------------------------------------- migrateSqlToMongo
\* One migration runs at a time.  Its steps are the awaited store calls of
\* migrateSqlToMongo, in program order.
MigRunning == mig.pc \notin {"idle", "done", "failed"}

\* no document inserted yet
NoneInserted == [ restaurants |-> 0, people |-> 0, orders |-> 0 ]

RstRunning == rst.pc \notin {"idle", "done", "failed"}

\* readSqlSnapshot: the restaurant, person and order rows as committed now.
\* The person, restaurant and menu tables hold the same rows after every
\* reset and are kept constant.
MigrateRead ==
  /\ ~ MigRunning
  /\ adminOps < MaxAdminOps
  /\ adminOps' = adminOps + 1
  /\ mig' = [ pc |-> "m_del_r",
              snap |-> [ restaurants |-> SqlRestaurant,
                         people |-> { PersonDoc(x) : x \in SqlPerson },
                         orders |-> sqlOrder, items |-> sqlItem,
                         payments |-> sqlPayment, deliveries |-> sqlDelivery ],
              cleared |-> {}, inserted |-> NoneInserted ]
  /\ UNCHANGED << sqlVars, mongoVars, clock, req, started, mongoPaid,
                  mongoMeta, rst, lastMig >>

\* db.collection("restaurants").deleteMany({})
MigrateDeleteRestaurants ==
  /\ mig.pc = "m_del_r"
  /\ mongoRestaurants' = {}
  /\ mig' = [ mig EXCEPT !.pc = "m_del_p", !.cleared = @ \cup {"restaurants"} ]
  /\ UNCHANGED << sqlVars, mongoPeople, mongoOrders, mongoOid, clock, req, started,
                  mongoPaid, mongoMeta, rst, adminOps, lastMig >>

\* db.collection("people").deleteMany({})
MigrateDeletePeople ==
  /\ mig.pc = "m_del_p"
  /\ mongoPeople' = {}
  /\ mig' = [ mig EXCEPT !.pc = "m_del_o", !.cleared = @ \cup {"people"} ]
  /\ UNCHANGED << sqlVars, mongoRestaurants, mongoOrders, mongoOid, clock, req,
                  started, mongoPaid, mongoMeta, rst, adminOps, lastMig >>

\* db.collection("orders").deleteMany({})
MigrateDeleteOrders ==
  /\ mig.pc = "m_del_o"
  /\ mongoOrders' = {}
  /\ mig' = [ mig EXCEPT !.pc = "m_ins_r", !.cleared = @ \cup {"orders"} ]
  /\ UNCHANGED << sqlVars, mongoPeople, mongoRestaurants, mongoOid, clock, req,
                  started, mongoPaid, mongoMeta, rst, adminOps, lastMig >>

\* if ( sql.restaurants.length ) insertMany(sql.restaurants)
MigrateInsertRestaurants ==
  /\ mig.pc = "m_ins_r"
  /\ mongoRestaurants' = mongoRestaurants \cup mig.snap.restaurants
  /\ mig' = [ mig EXCEPT !.pc = "m_ins_p",
                         !.inserted.restaurants = Cardinality(mig.snap.restaurants) ]
  /\ UNCHANGED << sqlVars, mongoPeople, mongoOrders, mongoOid, clock, req, started,
                  mongoPaid, mongoMeta, rst, adminOps, lastMig >>

\* if ( sql.people.length ) insertMany(sql.people)
MigrateInsertPeople ==
  /\ mig.pc = "m_ins_p"
  /\ mongoPeople' = mongoPeople \cup mig.snap.people
  /\ mig' = [ mig EXCEPT !.pc = "m_ins_o",
                         !.inserted.people = Cardinality(mig.snap.people) ]
  /\ UNCHANGED << sqlVars, mongoRestaurants, mongoOrders, mongoOid, clock, req,
                  started, mongoPaid, mongoMeta, rst, adminOps, lastMig >>

\* a bulk insert whose write errors are swallowed
InsertManyOutcome_Ignored(taken) == "m_meta"

\* await insertMany(...): the migration goes on when every document was
\* inserted and throws when one was refused
InsertManyOutcome(taken) == IF taken = {} THEN "m_meta" ELSE "failed"

\* if ( sql.orders.length ) insertMany(sql.orders): an ordered bulk insert
\* against the unique index on orderId.  It stops at the first document whose
\* orderId is taken (by an order placed since the deleteMany), keeps the
\* documents inserted before it, and the migration throws.
MigrateInsertOrders ==
  LET docs == MigratedOrders(mig.snap.orders, mig.snap.items, mig.snap.payments,
                             mig.snap.deliveries, mongoOid)
      taken == { d \in docs : MongoDuplicateKey(mongoOrders, d.orderId) }
      done == { d \in docs : \A t \in taken : d.orderId < t.orderId }
  IN /\ mig.pc = "m_ins_o"
     /\ mongoOrders' = mongoOrders \cup done
     /\ mongoOid' = mongoOid + Cardinality(done)
     /\ mig' = [ mig EXCEPT !.pc = InsertManyOutcome(taken),
                            !.inserted.orders = Cardinality(done) ]
     /\ UNCHANGED << sqlVars, mongoPeople, mongoRestaurants, clock, req, started,
                     mongoPaid, mongoMeta, rst, adminOps, lastMig >>

\* the marker with counts added to those of the previous marker
MigrationMarker_Accumulate(snap, now) ==
  [ lastMigrationAt |-> now,
    migrated |-> [ restaurants |-> Cardinality(snap.restaurants),
                   people |-> Cardinality(snap.people),
                   orders |-> Cardinality(snap.orders)
                              + IF mongoMeta = Null THEN 0
                                ELSE mongoMeta.migrated.orders ] ]

\* the marker document of a migration that inserted this snapshot
MigrationMarker(snap, now) ==
  [ lastMigrationAt |-> now,
    migrated |-> [ restaurants |-> Cardinality(snap.restaurants),
                   people |-> Cardinality(snap.people),
                   orders |-> Cardinality(snap.orders) ] ]

\* ensureMongoIndexes and the upsert of { _id: "migration" } in meta
MigrateMeta ==
  /\ mig.pc = "m_meta"
  /\ mongoMeta' = MigrationMarker(mig.snap, clock)
  /\ lastMig' = MigrationResult(mongoRestaurants, mongoPeople, mongoOrders,
                                mongoMeta', started, adminOps, sqlVars)
  /\ clock' = clock + 1
  /\ mig' = [ pc |-> "done", snap |-> Null, cleared |-> {},
              inserted |-> NoneInserted ]
  /\ UNCHANGED << sqlVars, mongoVars, req, started, mongoPaid, rst, adminOps >>

\* a store call of the migration fails: migrateSqlToMongo throws
MigrateFail ==
  /\ MigRunning
  /\ mig' = [ pc |-> "failed", snap |-> Null, cleared |-> {},
              inserted |-> NoneInserted ]
  /\ UNCHANGED << sqlVars, mongoVars, clock, req, started, mongoPaid, mongoMeta,
                  rst, adminOps, lastMig >>

\* ------------------------------------------------------ importResetMariaDb
\* The rows the generator inserts (its seed is fixed; created_at is taken
\* from Date.now()): one order of restaurant 2, paid, picked up by rider 1.
ResetOrders(now) ==
  { [ orderId |-> 1, customerId |-> 1, restaurantId |-> 2, createdAt |-> now,
      status |-> "ready", totalAmount |-> 48000 ] }

ResetItems ==
  { [ orderItemId |-> 1, orderId |-> 1, menuItemId |-> 2, quantity |-> 2,
      unitPrice |-> 24000 ] }

ResetPayments(now) ==
  { [ paymentId |-> 1, orderId |-> 1, amount |-> 48000, method |-> "card",
      paidAt |-> now ] }

\* a generated delivery with a rider and no assigned_at
ResetDeliveries_Unstamped(now) ==
  { [ deliveryId |-> 1, orderId |-> 1, riderId |-> 2, assignedAt |-> 0,
      deliveryStatus |-> "picked_up" ] }

\* the delivery of the generated order: isAssigned, so rider_id and
\* assigned_at are both given
ResetDeliveries(now) ==
  { [ deliveryId |-> 1, orderId |-> 1, riderId |-> 2, assignedAt |-> now,
      deliveryStatus |-> "picked_up" ] }

\* a clearing that leaves the marker in place
ResetTargets_NoMeta == {"restaurants", "people", "orders"}

\* the collections and the marker clearMongoAfterSqlReset deletes
ResetTargets == {"restaurants", "people", "orders", "meta"}

\* recreateSchema and clearAll: the DELETEs, then ALTER TABLE ... AUTO_INCREMENT
\* = 1, a DDL statement, which commits what was deleted.
ResetDelete ==
  /\ ~ RstRunning
  /\ adminOps < MaxAdminOps
  /\ adminOps' = adminOps + 1
  /\ sqlOrder' = {} /\ sqlItem' = {} /\ sqlPayment' = {} /\ sqlDelivery' = {}
  /\ sqlAuto' = [ order |-> 1, item |-> 1, payment |-> 1, delivery |-> 1 ]
  /\ rst' = [ pc |-> "r_insert", todo |-> {} ]
  /\ UNCHANGED << mongoVars, clock, req, started, mongoPaid, mongoMeta,
                  mig, lastMig >>

\* the tables of schema.sql
SqlTables ==
  {"person", "customer", "rider", "restaurant", "rider_works_for", "menu_item",
   "category", "menu_item_category", "order", "order_item", "payment", "delivery"}

\* the FOREIGN KEY constraints of schema.sql: << referencing table, referenced
\* table >>
SqlForeignKeys ==
  { << "customer", "person" >>, << "rider", "person" >>,
    << "rider_works_for", "rider" >>, << "rider_works_for", "restaurant" >>,
    << "menu_item", "restaurant" >>,
    << "menu_item_category", "menu_item" >>, << "menu_item_category", "category" >>,
    << "order", "customer" >>, << "order", "restaurant" >>,
    << "order_item", "order" >>, << "order_item", "menu_item" >>,
    << "payment", "order" >>,
    << "delivery", "order" >>, << "delivery", "rider" >> }

\* the tables deleted from the referenced ones down to the referencing ones
DeleteOrder_ParentsFirst ==
  << "person", "rider", "customer", "restaurant", "category", "menu_item",
     "order", "delivery", "payment", "order_item", "rider_works_for",
     "menu_item_category" >>

\* deleteOrder of clearAll
DeleteOrder ==
  << "menu_item_category", "rider_works_for", "order_item", "payment", "delivery",
     "order", "menu_item", "category", "restaurant", "customer", "rider",
     "person" >>

\* for ( const t of deleteOrder ): the first table of deleteOrder among those
\* still to delete
NextTable(todo) ==
  DeleteOrder[CHOOSE i \in 1..Len(DeleteOrder) :
                /\ DeleteOrder[i] \in todo
                /\ \A j \in 1..(i - 1) : DeleteOrder[j] \notin todo]

\* importResetMariaDb is called: withTx begins, recreateSchema (CREATE TABLE IF
\* NOT EXISTS) and clearAll is entered with every table still to delete.
ClearAllBegin ==
  /\ ~ RstRunning
  /\ adminOps < MaxAdminOps
  /\ adminOps' = adminOps + 1
  /\ rst' = [ pc |-> "r_delete", todo |-> SqlTables ]
  /\ UNCHANGED << sqlVars, mongoVars, clock, req, started, mongoPaid, mongoMeta,
                  mig, lastMig >>

\* One turn of the loop of clearAll: DELETE FROM the next table, inside the
\* transaction (other connections see the rows until the commit).
ClearAllDelete ==
  /\ rst.pc = "r_delete" /\ rst.todo # {}
  /\ rst' = [ rst EXCEPT !.todo = @ \ { NextTable(rst.todo) } ]
  /\ UNCHANGED << sqlVars, mongoVars, clock, req, started, mongoPaid, mongoMeta,
                  mig, adminOps, lastMig >>

\* The loop is over: ALTER TABLE ... AUTO_INCREMENT = 1, a DDL statement, which
\* commits what was deleted.
ClearAllCommit ==
  /\ rst.pc = "r_delete" /\ rst.todo = {}
  /\ sqlOrder' = {} /\ sqlItem' = {} /\ sqlPayment' = {} /\ sqlDelivery' = {}
  /\ sqlAuto' = [ order |-> 1, item |-> 1, payment |-> 1, delivery |-> 1 ]
  /\ rst' = [ pc |-> "r_insert", todo |-> {} ]
  /\ UNCHANGED << mongoVars, clock, req, started, mongoPaid, mongoMeta,
                  mig, adminOps, lastMig >>

\* the generated rows are inserted and the callback of withTx returns
ResetInsert ==
  /\ rst.pc = "r_insert"
  /\ sqlOrder' = ResetOrders(clock) /\ sqlItem' = ResetItems
  /\ sqlPayment' = ResetPayments(clock) /\ sqlDelivery' = ResetDeliveries(clock)
  /\ sqlAuto' = [ order |-> 2, item |-> 2, payment |-> 2, delivery |-> 2 ]
  /\ clock' = clock + 1
  /\ rst' = [ pc |-> "r_mongo", todo |-> ResetTargets ]
  /\ UNCHANGED << mongoVars, req, started, mongoPaid, mongoMeta, mig,
                  adminOps, lastMig >>

\* clearMongoAfterSqlReset: Promise.all of three deleteMany and one deleteOne,
\* which the store serves in any order.
ResetClear(c) ==
  /\ rst.pc = "r_mongo" /\ c \in rst.todo
  /\ mongoRestaurants' = IF c = "restaurants" THEN {} ELSE mongoRestaurants
  /\ mongoPeople' = IF c = "people" THEN {} ELSE mongoPeople
  /\ mongoOrders' = IF c = "orders" THEN {} ELSE mongoOrders
  /\ mongoMeta' = IF c = "meta" THEN Null ELSE mongoMeta
  /\ rst' = IF rst.todo = {c} THEN [ pc |-> "done", todo |-> {} ]
            ELSE [ rst EXCEPT !.todo = @ \ {c} ]
  /\ UNCHANGED << sqlVars, mongoOid, clock, req, started, mongoPaid, mig,
                  adminOps, lastMig >>

\* getMongo() fails: nothing is cleared and importResetMariaDb throws, the
\* relational reset being committed
ResetClearFail ==
  /\ rst.pc = "r_mongo" /\ rst.todo = ResetTargets
  /\ rst' = [ pc |-> "failed", todo |-> {} ]
  /\ UNCHANGED << sqlVars, mongoVars, clock, req, started, mongoPaid, mongoMeta,
                  mig, adminOps, lastMig >>

\* ------------------------------------------------------------ GET /api/health
\* activeMode without the order count
ActiveMode_MarkerOnly(migration, orders) ==
  IF migration # Null /\ migration.lastMigrationAt # 0 THEN "mongo" ELSE "sql"

\* Boolean(migration?.lastMigrationAt) && orders > 0
ActiveMode(migration, orders) ==
  IF migration # Null /\ migration.lastMigrationAt # 0 /\ orders > 0
  THEN "mongo" ELSE "sql"

\* The request arrives: SELECT 1, ensureMongoIndexes and the three
\* countDocuments.
HealthCounts(p) ==
  /\ Slot(p)
  /\ started' = started + 1
  /\ req' = [ req EXCEPT ![p] =
       [ Idle EXCEPT !.kind = "health", !.pc = "h_meta",
                     !.amount = Cardinality(mongoOrders) ] ]
  /\ UNCHANGED << sqlVars, mongoVars, clock, mongoPaid, admVars >>

\* meta.findOne({ _id: "migration" }), activeMode and the response
HealthMeta(p) ==
  LET r == req[p]
  IN /\ r.kind = "health" /\ r.pc = "h_meta"
     /\ req' = [ req EXCEPT ![p] =
          [ Respond(r, 200, "") EXCEPT
              !.out = [ activeMode |-> ActiveMode(mongoMeta, r.amount),
                        orders |-> r.amount, migration |-> mongoMeta ] ] ]
     /\ UNCHANGED << sqlVars, mongoVars, clock, started, mongoPaid, admVars >>

\* -------------------------------------------------------------- reports
\* Number(x).toFixed(2) of an amount (in mills), as a number of cents
toFixed2(amount) == (amount + 5) \div 10

\* created_at >= from AND created_at <= to, each bound only if given (0: none)
SqlInRange(t, from, to) == (from = 0 \/ t >= from) /\ (to = 0 \/ t <= to)

\* a range without its end points
MongoInRange_Exclusive(t, from, to) == (from = 0 \/ t > from) /\ (to = 0 \/ t < to)

\* createdAt: { $gte: from, $lte: to }, each bound only if given
MongoInRange(t, from, to) == (from = 0 \/ t >= from) /\ (to = 0 \/ t <= to)

\* restaurant r JOIN `order` o WHERE r.name = ? and the range
SqlReportOrders(name, from, to) ==
  { o \in sqlOrder :
      /\ \E r \in SqlRestaurant : r.restaurantId = o.restaurantId /\ r.name = name
      /\ SqlInRange(o.createdAt, from, to) }

\* LEFT JOIN payment pay: pay.paid_at of the order's payment row, NULL (0)
\* when it has none
SqlPaidAtOf(o) ==
  LET pay == { x \in sqlPayment : x.orderId = o.orderId }
  IN IF pay = {} THEN 0 ELSE (CHOOSE x \in pay : TRUE).paidAt

\* the summary query of GET /student1/sql/report
SqlCustomerSummary(name, from, to) ==
  LET rows == SqlReportOrders(name, from, to)
  IN [ totalOrders |-> Cardinality(rows),
       totalRevenue |-> toFixed2(SetSum(rows, [ o \in rows |-> o.totalAmount ])),
       paidOrders |-> Cardinality({ o \in rows : SqlPaidAtOf(o) # 0 }),
       unpaidOrders |-> Cardinality({ o \in rows : SqlPaidAtOf(o) = 0 }) ]

\* $match { "restaurant.name": name, createdAt: range }
MongoReportOrders(name, from, to) ==
  { d \in mongoOrders :
      /\ d.restaurant # Null /\ d.restaurant.name = name
      /\ MongoInRange(d.createdAt, from, to) }

\* the value of a field path that does not resolve: neither null (0) nor a
\* timestamp
Missing == -1

\* "$payment.paidAt": missing when payment is null (a path through a value
\* that is no document resolves to nothing), else the field's value (0: null)
MongoPaidAtPath(d) == IF d.payment = Null THEN Missing ELSE d.payment.paidAt

\* { $ne: [v, null] } and { $eq: [v, null] }: a missing value is not null
MongoNeNull(v) == v # 0

MongoEqNull(v) == v = 0

\* the $group stage of the summary of GET /student1/mongo/report
MongoCustomerSummary(name, from, to) ==
  LET docs == MongoReportOrders(name, from, to)
  IN [ totalOrders |-> Cardinality(docs),
       totalRevenue |-> toFixed2(SetSum(docs, [ d \in docs |-> d.totalAmount ])),
       paidOrders |-> Cardinality({ d \in docs : MongoNeNull(MongoPaidAtPath(d)) }),
       unpaidOrders |-> Cardinality({ d \in docs : MongoEqNull(MongoPaidAtPath(d)) }) ]

\* GROUP BY o.status: a row per status of the matching orders
SqlByStatus(name, from, to) ==
  LET rows == SqlReportOrders(name, from, to)
  IN { [ status |-> st, count |-> Cardinality({ o \in rows : o.status = st }) ] :
         st \in { o.status : o \in rows } }

\* $group { _id: "$status", count: { $sum: 1 } }
MongoByStatus(name, from, to) ==
  LET docs == MongoReportOrders(name, from, to)
  IN { [ status |-> st, count |-> Cardinality({ d \in docs : d.status = st }) ] :
         st \in { d.status : d \in docs } }

\* JOIN payment pay WHERE pay.paid_at IS NOT NULL GROUP BY pay.payment_method
SqlByPaymentMethod(name, from, to) ==
  LET rows == SqlReportOrders(name, from, to)
      pays == { x \in sqlPayment :
                  x.paidAt # 0 /\ \E o \in rows : o.orderId = x.orderId }
  IN { [ method |-> m,
         count |-> Cardinality({ x \in pays : x.method = m }),
         total |-> LET g == { x \in pays : x.method = m }
                   IN toFixed2(SetSum(g, [ x \in g |-> x.amount ])) ] :
         m \in { x.method : x \in pays } }

\* the query operator { $ne: null }: a field that is null or does not exist
\* does not match
MongoQueryNeNull(v) == v # 0 /\ v # Missing

\* $match { "payment.paidAt": { $ne: null } }, $group { _id: "$payment.method" };
\* the total is the sum of the amounts, a number (mills)
MongoByPaymentMethod(name, from, to) ==
  LET docs == { d \in MongoReportOrders(name, from, to) :
                  MongoQueryNeNull(MongoPaidAtPath(d)) }
  IN { [ method |-> m,
         count |-> Cardinality({ d \in docs : d.payment.method = m }),
         total |-> LET g == { d \in docs : d.payment.method = m }
                   IN SetSum(g, [ d \in g |-> d.payment.amount ]) ] :
         m \in { d.payment.method : d \in docs } }

\* LIMIT 5 and { $limit: 5 } of the top items
TopLimit == 5

\* ORDER BY totalQuantity DESC LIMIT 5 of a set of groups: the sets of groups
\* the store may return (groups of equal quantity come in any order)
TopGroups(groups) ==
  LET n == IF Cardinality(groups) < TopLimit THEN Cardinality(groups) ELSE TopLimit
  IN { S \in SUBSET groups :
         /\ Cardinality(S) = n
         /\ \A a \in S, b \in groups \ S : a.totalQuantity >= b.totalQuantity }

\* JOIN order_item oi JOIN menu_item m GROUP BY m.menu_item_id, m.name:
\* a group per menu item; totalRevenue is SUM(oi.quantity * oi.unit_price)
SqlTopItems(name, from, to) ==
  LET rows == SqlReportOrders(name, from, to)
      lines == { oi \in sqlItem :
                   /\ \E o \in rows : o.orderId = oi.orderId
                   /\ \E m \in SqlMenuItem : m.menuItemId = oi.menuItemId }
      nameOf(id) == (CHOOSE m \in SqlMenuItem : m.menuItemId = id).name
      group(id) ==
        LET g == { oi \in lines : oi.menuItemId = id }
        IN [ key |-> << id, nameOf(id) >>, itemName |-> nameOf(id),
             totalQuantity |-> SetSum(g, [ oi \in g |-> oi.quantity ]),
             totalRevenue |->
               toFixed2(SetSum(g, [ oi \in g |-> oi.quantity * oi.unitPrice ])) ]
  IN TopGroups({ group(id) : id \in { oi.menuItemId : oi \in lines } })

\* $unwind "$orderItems", $group { _id: "$orderItems.name" }: a group per
\* item name; totalRevenue is the sum of quantity * unitPrice, a number
MongoTopItems(name, from, to) ==
  LET docs == MongoReportOrders(name, from, to)
      lines == { << d._id, i >> : d \in docs, i \in 1..MaxOf({0} \cup
                   { Len(x.orderItems) : x \in docs }) }
      unwound == { l \in lines :
                     \E d \in docs : d._id = l[1] /\ l[2] <= Len(d.orderItems) }
      item(l) == (CHOOSE d \in docs : d._id = l[1]).orderItems[l[2]]
      group(nm) ==
        LET g == { l \in unwound : item(l).name = nm }
        IN [ key |-> nm, itemName |-> nm,
             totalQuantity |-> SetSum(g, [ l \in g |-> item(l).quantity ]),
             totalRevenue |->
               SetSum(g, [ l \in g |-> item(l).quantity * item(l).unitPrice ]) ]
  IN TopGroups({ group(nm) : nm \in { item(l).name : l \in unwound } })

\* the rows of the response for a set of groups, as the bag of the rows (the
\* grouping key is not a column of the response)
TopRows(groups) ==
  LET row(g) == [ itemName |-> g.itemName, totalQuantity |-> g.totalQuantity,
                  totalRevenue |-> g.totalRevenue ]
  IN [ x \in { row(g) : g \in groups } |->
         Cardinality({ g \in groups : row(g) = x }) ]

\* the response of a customer report: the summary and the breakdown
CustomerResponse(summary, byStatus, byPaymentMethod, topItems) ==
  [ totalOrders |-> summary.totalOrders, totalRevenue |-> summary.totalRevenue,
    paidOrders |-> summary.paidOrders, unpaidOrders |-> summary.unpaidOrders,
    breakdown |-> [ byStatus |-> byStatus, byPaymentMethod |-> byPaymentMethod,
                    topItems |-> TopRows(topItems) ] ]

\* the order row of a delivery row
SqlOrderOf(d) == CHOOSE o \in sqlOrder : o.orderId = d.orderId

\* rider r JOIN person p JOIN delivery d JOIN `order` o WHERE p.email = ?,
\* the range and the delivery status, if given ("": none)
SqlReportDeliveries(email, from, to, status) ==
  { d \in sqlDelivery :
      /\ \E x \in SqlPerson :
           x.role = "rider" /\ x.personId = d.riderId /\ x.email = email
      /\ \E o \in sqlOrder : o.orderId = d.orderId
      /\ SqlInRange(SqlOrderOf(d).createdAt, from, to)
      /\ (status = "" \/ d.deliveryStatus = status) }

\* the summary query of GET /student2/sql/report
SqlRiderSummary(email, from, to, status) ==
  LET rows == SqlReportDeliveries(email, from, to, status)
      n(st) == Cardinality({ d \in rows : d.deliveryStatus = st })
  IN [ totalDeliveries |-> Cardinality(rows),
       totalRevenue |->
         toFixed2(SetSum(rows, [ d \in rows |-> SqlOrderOf(d).totalAmount ])),
       assigned |-> n("assigned"), picked_up |-> n("picked_up"),
       delivered |-> n("delivered") ]

\* a $match without the rider's email
MongoReportDeliveries_AnyRider(email, from, to, status) ==
  { d \in mongoOrders :
      /\ d.delivery # Null /\ d.delivery.rider # Null
      /\ (status = "" \/ d.delivery.deliveryStatus = status)
      /\ MongoInRange(d.createdAt, from, to) }

\* $match { "delivery.rider.email", "delivery.deliveryStatus", createdAt }
MongoReportDeliveries(email, from, to, status) ==
  { d \in mongoOrders :
      /\ d.delivery # Null /\ d.delivery.rider # Null
      /\ d.delivery.rider.email = email
      /\ (status = "" \/ d.delivery.deliveryStatus = status)
      /\ MongoInRange(d.createdAt, from, to) }

\* the $group stage of the summary of GET /student2/mongo/report
MongoRiderSummary(email, from, to, status) ==
  LET docs == MongoReportDeliveries(email, from, to, status)
      n(st) == Cardinality({ d \in docs : d.delivery.deliveryStatus = st })
  IN [ totalDeliveries |-> Cardinality(docs),
       totalRevenue |-> toFixed2(SetSum(docs, [ d \in docs |-> d.totalAmount ])),
       assigned |-> n("assigned"), picked_up |-> n("picked_up"),
       delivered |-> n("delivered") ]

\* A report request: validation, the summary and the response.
Report(p, kind, key, from, to, status, summary) ==
  LET r == [ Idle EXCEPT !.kind = kind, !.email = key, !.restaurant = key,
                         !.from = from, !.to = to, !.arg = status ]
  IN /\ Slot(p)
     /\ started' = started + 1
     /\ req' = [ req EXCEPT ![p] =
          IF key = "" THEN Respond(r, 400, "key is required")
          ELSE [ Respond(r, 200, "") EXCEPT !.out = summary ] ]
     /\ UNCHANGED << sqlVars, mongoVars, clock, mongoPaid, admVars >>

\* GET /student1/sql/report
SqlCustomerReport(p, name, from, to) ==
  \E top \in SqlTopItems(name, from, to) :
    Report(p, "sqlReport", name, from, to, "",
           CustomerResponse(SqlCustomerSummary(name, from, to),
                            SqlByStatus(name, from, to),
                            SqlByPaymentMethod(name, from, to), top))

\* GET /student1/mongo/report
MongoCustomerReport(p, name, from, to) ==
  \E top \in MongoTopItems(name, from, to) :
    Report(p, "mongoReport", name, from, to, "",
           CustomerResponse(MongoCustomerSummary(name, from, to),
                            MongoByStatus(name, from, to),
                            MongoByPaymentMethod(name, from, to), top))

\* GET /student2/sql/report
SqlRiderReport(p, email, from, to, status) ==
  Report(p, "sqlRiderReport", email, from, to, status,
         SqlRiderSummary(email, from, to, status))

\* GET /student2/mongo/report
MongoRiderReport(p, email, from, to, status) ==
  Report(p, "mongoRiderReport", email, from, to, status,
         MongoRiderSummary(email, from, to, status))

\* --------------------------------------------- withConn and withTx, call by call
\* A call of withTx with any callback.  req[p].items is the log of the calls
\* made on the pool and the connection, each with its outcome; req[p].error
\* is the error that is being thrown ("" when none).
TxCall(name, ok) == << name, IF ok THEN "ok" ELSE "throws" >>

\* withConn: await pool.getConnection()
GetConnection(p, ok) ==
  LET r == [ Idle EXCEPT !.kind = "withTx" ]
  IN /\ Slot(p)
     /\ started' = started + 1
     /\ req' = [ req EXCEPT ![p] =
          IF ok THEN [ r EXCEPT !.pc = "tx_begin",
                                !.items = << TxCall("getConnection", TRUE) >> ]
          ELSE [ r EXCEPT !.pc = "done", !.status = 500, !.error = "getConnection",
                          !.items = << TxCall("getConnection", FALSE) >> ] ]
     /\ UNCHANGED << sqlVars, mongoVars, clock, mongoPaid, admVars >>

\* await conn.beginTransaction(), before the try of withTx: a rejection goes
\* to the finally of withConn
BeginTransaction(p, ok) ==
  LET r == req[p]
  IN /\ r.kind = "withTx" /\ r.pc = "tx_begin"
     /\ req' = [ req EXCEPT ![p] =
          [ r EXCEPT !.items = Append(@, TxCall("beginTransaction", ok)),
                     !.pc = IF ok THEN "tx_fn" ELSE "tx_release",
                     !.error = IF ok THEN "" ELSE "beginTransaction" ] ]
     /\ UNCHANGED << sqlVars, mongoVars, clock, started, mongoPaid, admVars >>

\* const result = await fn(conn): the callback returns or throws
Callback(p, ok) ==
  LET r == req[p]
  IN /\ r.kind = "withTx" /\ r.pc = "tx_fn"
     /\ req' = [ req EXCEPT ![p] =
          [ r EXCEPT !.items = Append(@, TxCall("fn", ok)),
                     !.pc = IF ok THEN "tx_commit" ELSE "tx_rollback",
                     !.error = IF ok THEN "" ELSE "fn" ] ]
     /\ UNCHANGED << sqlVars, mongoVars, clock, started, mongoPaid, admVars >>

\* await conn.commit(); return result
Commit(p, ok) ==
  LET r == req[p]
  IN /\ r.kind = "withTx" /\ r.pc = "tx_commit"
     /\ req' = [ req EXCEPT ![p] =
          [ r EXCEPT !.items = Append(@, TxCall("commit", ok)),
                     !.pc = IF ok THEN "tx_release" ELSE "tx_rollback",
                     !.error = IF ok THEN "" ELSE "commit" ] ]
     /\ UNCHANGED << sqlVars, mongoVars, clock, started, mongoPaid, admVars >>

\* a rollback whose rejection leaves withConn without its finally
AfterRollback_NoFinally(ok) == IF ok THEN "tx_release" ELSE "done"

\* where control goes after await conn.rollback(): to the finally of
\* withConn, with the caught error (throw e) or with the rollback's own
AfterRollback(ok) == "tx_release"

\* catch (e) { await conn.rollback(); throw e; }
Rollback(p, ok) ==
  LET r == req[p]
  IN /\ r.kind = "withTx" /\ r.pc = "tx_rollback"
     /\ req' = [ req EXCEPT ![p] =
          [ r EXCEPT !.items = Append(@, TxCall("rollback", ok)),
                     !.pc = AfterRollback(ok),
                     !.status = IF AfterRollback(ok) = "done" THEN 500 ELSE 0,
                     !.error = IF ok THEN r.error ELSE "rollback" ] ]
     /\ UNCHANGED << sqlVars, mongoVars, clock, started, mongoPaid, admVars >>

\* finally { conn.release(); }: the result is returned or the error thrown
Release(p) ==
  LET r == req[p]
  IN /\ r.kind = "withTx" /\ r.pc = "tx_release"
     /\ req' = [ req EXCEPT ![p] =
          [ r EXCEPT !.items = Append(@, TxCall("release", TRUE)),
                     !.pc = "done",
                     !.status = IF r.error = "" THEN 200 ELSE 500 ] ]
     /\ UNCHANGED << sqlVars, mongoVars, clock, started, mongoPaid, admVars >>

\* ------------------------------------------------------- specifications
\* Concurrent calls of withTx; every call on the pool or the connection may
\* fail.
NextTx ==
  \/ \E p \in Procs, ok \in BOOLEAN : started < MaxRequests /\ GetConnection(p, ok)
  \/ \E p \in Procs, ok \in BOOLEAN : BeginTransaction(p, ok)
  \/ \E p \in Procs, ok \in BOOLEAN : Callback(p, ok)
  \/ \E p \in Procs, ok \in BOOLEAN : Commit(p, ok)
  \/ \E p \in Procs, ok \in BOOLEAN : Rollback(p, ok)
  \/ \E p \in Procs : Release(p)

SpecTx == InitWith({"ready"}, {{}}) /\ [][NextTx]_vars

NextPay ==
  \/ \E p \in Procs, in \in PayInputs :
       started < MaxRequests /\ OneMode(SqlKinds) /\ SqlPayRead(p, in[1], in[2])
  \/ \E p \in Procs : SqlPayWrite(p)
  \/ \E p \in Procs, in \in PayInputs :
       started < MaxRequests /\ OneMode(MongoKinds) /\ MongoPayUpdate(p, in[1], in[2])
  \/ \E p \in Procs : MongoPayRead(p)

\* pay reads no delivery: the generated order has none
InitPay == InitWith(OrderStatuses, {{}})

SpecPay == InitPay /\ [][NextPay]_vars

NextAssign ==
  \/ \E p \in Procs, in \in AssignInputs :
       /\ started < MaxRequests /\ OneMode(SqlKinds)
       /\ SqlAssignRead(p, in[1], in[2], in[3])
  \/ \E p \in Procs : SqlAssignWrite(p)
  \/ \E p \in Procs, in \in AssignInputs :
       /\ started < MaxRequests /\ OneMode(MongoKinds)
       /\ MongoAssignRider(p, in[1], in[2], in[3])
  \/ \E p \in Procs : MongoAssignUpdate(p)

\* assign_delivery reads no order status: the generated order is "ready"
InitAssign == InitWith({"ready"}, DemoDeliveries)

SpecAssign == InitAssign /\ [][NextAssign]_vars

\* One request at a time: a request arrives only when no other is in flight.
AllFree == \A q \in Procs : Free(q)

NextAssignSeq ==
  \/ \E p \in Procs, in \in AssignInputs :
       /\ started < MaxRequests /\ OneMode(SqlKinds) /\ AllFree
       /\ SqlAssignRead(p, in[1], in[2], in[3])
  \/ \E p \in Procs : SqlAssignWrite(p)
  \/ \E p \in Procs, in \in AssignInputs :
       /\ started < MaxRequests /\ OneMode(MongoKinds) /\ AllFree
       /\ MongoAssignRider(p, in[1], in[2], in[3])
  \/ \E p \in Procs : MongoAssignUpdate(p)

SpecAssignSeq == InitAssign /\ [][NextAssignSeq]_vars

\* Requests whose natural keys do not resolve, next to one of each operation
\* that does.
LookupPayInputs == { << 9, "card" >>, << 2, "card" >> }

LookupAssignInputs ==
  { << "nobody@example.com", 1, "assigned" >>,
    << "rider1@example.com", 9, "assigned" >>,
    << "nobody@example.com", 9, "assigned" >>,
    << "rider1@example.com", 2, "assigned" >> }

LookupPlaceInputs(good) ==
  { << "nobody@example.com", "Plachutta", << good[1] >> >>,
    << "customer1@example.com", "Nowhere", << good[1] >> >>,
    << "nobody@example.com", "Nowhere", << good[1] >> >>,
    << "customer1@example.com", "Plachutta", << good[1] >> >> }

NextLookup ==
  \/ \E p \in Procs, in \in LookupPayInputs :
       /\ started < MaxRequests /\ OneMode(SqlKinds)
       /\ SqlPayRead(p, in[1], in[2])
  \/ \E p \in Procs : SqlPayWrite(p)
  \/ \E p \in Procs, in \in LookupAssignInputs :
       /\ started < MaxRequests /\ OneMode(SqlKinds)
       /\ SqlAssignRead(p, in[1], in[2], in[3])
  \/ \E p \in Procs : SqlAssignWrite(p)
  \/ \E p \in Procs, in \in LookupPlaceInputs(SqlGoodItems) :
       /\ started < MaxRequests /\ OneMode(SqlKinds)
       /\ SqlPlaceBegin(p, in[1], in[2], in[3])
  \/ \E p \in Procs : SqlPlaceItem(p)
  \/ \E p \in Procs : SqlPlaceCommit(p)
  \/ \E p \in Procs, in \in LookupPayInputs :
       /\ started < MaxRequests /\ OneMode(MongoKinds)
       /\ MongoPayUpdate(p, in[1], in[2])
  \/ \E p \in Procs : MongoPayRead(p)
  \/ \E p \in Procs, in \in LookupAssignInputs :
       /\ started < MaxRequests /\ OneMode(MongoKinds)
       /\ MongoAssignRider(p, in[1], in[2], in[3])
  \/ \E p \in Procs : MongoAssignUpdate(p)
  \/ \E p \in Procs, in \in LookupPlaceInputs(MongoGoodItems) :
       /\ started < MaxRequests /\ OneMode(MongoKinds)
       /\ MongoPlaceBegin(p, in[1], in[2], in[3])
  \/ \E p \in Procs : MongoPlaceFind(p)
  \/ \E p \in Procs : MongoPlaceInsert(p)

SpecLookup == InitWith({"ready"}, {{}}) /\ [][NextLookup]_vars

NextPlace ==
  \/ \E p \in Procs, in \in PlaceInputs(SqlGoodItems, SqlBadItems) :
       /\ started < MaxRequests /\ OneMode(SqlKinds)
       /\ SqlPlaceBegin(p, in[1], in[2], in[3])
  \/ \E p \in Procs : SqlPlaceItem(p)
  \/ \E p \in Procs : SqlPlaceCommit(p)
  \/ \E p \in Procs : SqlStoreError(p)
  \/ \E p \in Procs, in \in PlaceInputs(MongoGoodItems, MongoBadItems) :
       /\ started < MaxRequests /\ OneMode(MongoKinds)
       /\ MongoPlaceBegin(p, in[1], in[2], in[3])
  \/ \E p \in Procs : MongoPlaceFind(p)
  \/ \E p \in Procs : MongoPlaceInsert(p)
  \/ \E p \in Procs : MongoStoreError(p)

\* place_order reads neither the status nor the delivery of another order
InitPlace == InitWith({"ready"}, {{}})

SpecPlace == InitPlace /\ [][NextPlace]_vars

\* The race for the next orderId: document-mode place_order requests of one
\* body, as many as it takes to reject one request five times.
AllocInput == << "customer1@example.com", "Plachutta", << MongoGoodItems[1] >> >>

\* two clients, each sending its requests one after the other
Racers == { p \in Procs : p <= 2 }

NextAlloc ==
  \/ \E p \in Racers :
       /\ started < AllocRequests
       /\ MongoPlaceBegin(p, AllocInput[1], AllocInput[2], AllocInput[3])
  \/ \E p \in Racers : MongoPlaceFind(p)
  \/ \E p \in Racers : MongoPlaceInsert(p)
  \/ \E p \in Racers : MongoStoreError(p)

SpecAlloc == InitPlace /\ [][NextAlloc]_vars

\* ---------------------------------------------------------------------
\* Properties of pay (SpecPay)
\* ---------------------------------------------------------------------
MongoDocPaid(d) == d.payment # Null /\ d.payment.paidAt # 0

\* C4: a relational pay request (with a payment method) that arrives when
\* the order's payment row already has paid_at set is answered 409, and the
\* step that handles it changes neither the payment table nor the order
\* table.
C4_SqlPayTwiceConflict ==
  [][ \A p \in Procs :
        ( /\ req'[p] # req[p]
          /\ req'[p].kind = "sqlPay"
          /\ req'[p].arg # ""
          /\ req'[p].sawPaid )
        => ( /\ req'[p].pc = "done"
             /\ req'[p].status = 409
             /\ sqlPayment' = sqlPayment
             /\ sqlOrder' = sqlOrder ) ]_vars

\* Order 2, unpaid at first, was paid by card by a first relational pay; a
\* later pay of it by cash was answered 409 and the payment is still the
\* card payment.
C4_Witness ==
  \E q \in Procs, x \in sqlPayment :
    /\ req[q].kind = "sqlPay" /\ req[q].status = 409 /\ req[q].orderId = 2
    /\ req[q].sawPaid /\ req[q].arg = "cash"
    /\ x.orderId = 2 /\ x.paidAt # 0 /\ x.method = "card"

\* C5: in both stores, a payment whose paidAt is set keeps that paidAt in
\* every later state, whatever pay requests run or interleave.
C5_PaidAtImmutable ==
  [][ /\ \A x \in sqlPayment :
           x.paidAt # 0 =>
             \E y \in sqlPayment' : y.orderId = x.orderId /\ y.paidAt = x.paidAt
      /\ \A d \in mongoOrders :
           MongoDocPaid(d) =>
             \E e \in mongoOrders' :
               /\ e._id = d._id /\ e.payment # Null
               /\ e.payment.paidAt = d.payment.paidAt ]_vars

\* Two document-mode pays of order 2 were in flight together and both
\* answered 200; the second found paidAt set.
C5_Witness ==
  \E p, q \in Procs :
    /\ p # q
    /\ req[p].kind = "mongoPay" /\ req[p].status = 200 /\ req[p].orderId = 2
    /\ req[q].kind = "mongoPay" /\ req[q].status = 200 /\ req[q].orderId = 2
    /\ ~ req[p].sawPaid /\ req[q].sawPaid
    /\ req[p].out.paidAt = req[q].out.paidAt

\* C6: once a document-mode pay has updated an order, no later pay changes
\* its payment.paidAt, payment.method or status, whatever method it passes,
\* and a pay that finds paidAt set is answered 200.
C6_MongoPayIdempotent ==
  [][ /\ \A d \in mongoOrders :
           d.orderId \in mongoPaid =>
             \E e \in mongoOrders' :
               /\ e._id = d._id /\ e.payment # Null
               /\ e.payment.paidAt = d.payment.paidAt
               /\ e.payment.method = d.payment.method
               /\ e.status = d.status
      /\ \A p \in Procs :
           ( req'[p].kind = "mongoPay" /\ req'[p].pc = "done" /\ req'[p].sawPaid )
           => req'[p].status = 200 ]_vars

\* A first pay of order 2 with one method and a second with the other, both
\* answered 200, the second reporting the first one's method.
C6_Witness ==
  \E p, q \in Procs :
    /\ req[p].kind = "mongoPay" /\ req[p].status = 200 /\ req[p].orderId = 2
    /\ req[q].kind = "mongoPay" /\ req[q].status = 200 /\ req[q].orderId = 2
    /\ ~ req[p].sawPaid /\ req[q].sawPaid
    /\ req[p].arg # req[q].arg
    /\ req[q].out.method = req[p].arg

\* C7: a step in which a pay succeeds (relational: the committed write;
\* document: the update) sets the order's status to "preparing" if it was
\* "created" and leaves any other status as it was.
C7_PayAdvancesCreatedOnly ==
  [][ \A p \in Procs :
        /\ ( req'[p].kind = "sqlPay" /\ req[p].pc = "sp_write"
             /\ req'[p].status = 200 )
           => \A o \in sqlOrder :
                o.orderId = req'[p].orderId =>
                  \E o2 \in sqlOrder' :
                    /\ o2.orderId = o.orderId
                    /\ o2.status = IF o.status = "created" THEN "preparing"
                                   ELSE o.status
                    /\ (o2.status = "preparing" /\ o2.status # o.status)
                         <=> o.status = "created"
        /\ ( req'[p].kind = "mongoPay" /\ req'[p].pc = "mp_read"
             /\ req'[p] # req[p] )
           => \A d \in mongoOrders :
                d.orderId = req'[p].orderId =>
                  \E e \in mongoOrders' :
                    /\ e._id = d._id
                    /\ e.status = IF d.status = "created" THEN "preparing"
                                  ELSE d.status ]_vars

\* Document-mode pays of order 1 (generated, not "created") and of order 2
\* ("created") both succeeded: order 1 kept its status, order 2 advanced.
C7_Witness ==
  \E p, q \in Procs :
    /\ req[p].kind = "mongoPay" /\ req[p].status = 200 /\ req[p].orderId = 1
    /\ req[q].kind = "mongoPay" /\ req[q].status = 200 /\ req[q].orderId = 2
    /\ req[p].out.status = "completed"
    /\ req[q].out.status = "preparing" /\ ~ req[q].sawPaid

\* ---------------------------------------------------------------------
\* Properties of assign_delivery (SpecAssign, SpecAssignSeq)
\* ---------------------------------------------------------------------
MongoDocAssigned(d) == d.delivery # Null /\ d.delivery.assignedAt # 0

\* C2: under any interleaving of assign_delivery requests, in both stores, a
\* delivery whose assignedAt is set keeps that value in every later state.
C2_AssignedAtWrittenOnce ==
  [][ /\ \A x \in sqlDelivery :
           x.assignedAt # 0 =>
             \E y \in sqlDelivery' :
               y.orderId = x.orderId /\ y.assignedAt = x.assignedAt
      /\ \A d \in mongoOrders :
           MongoDocAssigned(d) =>
             \E e \in mongoOrders' :
               /\ e._id = d._id /\ e.delivery # Null
               /\ e.delivery.assignedAt = d.delivery.assignedAt ]_vars

\* C3: with one request at a time, a step in which assign_delivery succeeds
\* on an order whose delivery has assignedAt set keeps the delivery's
\* assignedAt and deliveryId and gives it the request's status and rider.
C3_ReassignKeepsAssignedAt ==
  [][ \A p \in Procs :
        /\ ( req[p].kind = "sqlAssign" /\ req[p].pc = "sa_write"
             /\ req'[p].status = 200 )
           => \A x \in sqlDelivery :
                ( x.orderId = req[p].orderId /\ x.assignedAt # 0 ) =>
                  \E y \in sqlDelivery' :
                    /\ y.orderId = x.orderId
                    /\ y.assignedAt = x.assignedAt
                    /\ y.deliveryId = x.deliveryId
                    /\ y.deliveryStatus = req[p].arg
                    /\ y.riderId = req[p].riderId
                    /\ \E r \in SqlPerson :
                         r.personId = y.riderId /\ r.email = req[p].email
        /\ ( req[p].kind = "mongoAssign" /\ req[p].pc = "ma_update"
             /\ req'[p].status = 200 )
           => \A d \in mongoOrders :
                ( d.orderId = req[p].orderId /\ MongoDocAssigned(d) ) =>
                  \E e \in mongoOrders' :
                    /\ e._id = d._id
                    /\ e.delivery.assignedAt = d.delivery.assignedAt
                    /\ e.delivery.deliveryId = d.delivery.deliveryId
                    /\ e.delivery.deliveryStatus = req[p].arg
                    /\ e.delivery.rider.email = req[p].email
                    /\ [ e EXCEPT !.delivery = d.delivery ] = d ]_vars

\* Order 1, picked up by rider 1 since time 3, was re-assigned to rider 2 as
\* delivered, in relational mode: the row and the response keep assignedAt 3
\* and deliveryId 1.
C3_Witness ==
  \E p \in Procs, x \in sqlDelivery :
    /\ req[p].kind = "sqlAssign" /\ req[p].status = 200 /\ req[p].orderId = 1
    /\ req[p].sawAssigned /\ req[p].arg = "delivered"
    /\ req[p].email = "rider2@example.com"
    /\ req[p].out.assignedAt = 3 /\ req[p].out.deliveryId = 1
    /\ x.orderId = 1 /\ x.assignedAt = 3 /\ x.deliveryId = 1
    /\ x.riderId = 3 /\ x.deliveryStatus = "delivered"

\* ---------------------------------------------------------------------
\* Properties of place_order

PlaceKinds == {"sqlPlace", "mongoPlace"}

\* the lines of a committed relational order, in cents
SqlOrderCents(orderId) ==
  LET rows == { i \in sqlItem : i.orderId = orderId }
  IN SetSum(rows, [ i \in rows |-> i.quantity * priceToCents(i.unitPrice) ])

\* the lines of an order document, in cents
MongoOrderCents(d) ==
  SumSeq([ i \in 1..Len(d.orderItems) |->
             d.orderItems[i].quantity * priceToCents(d.orderItems[i].unitPrice) ])

\* C1: in every state, the stored totalAmount of every committed order, in
\* whole cents, is the sum over its items of quantity times unit price in
\* cents, in the relational and in the document store; no committed order
\* shows the provisional total 0.
C1_TotalIsSumOfLines ==
  /\ \A o \in sqlOrder :
       /\ o.totalAmount = centsToAmount(SqlOrderCents(o.orderId))
       /\ priceToCents(o.totalAmount) = SqlOrderCents(o.orderId)
       /\ o.totalAmount # 0
  /\ \A d \in mongoOrders :
       /\ d.totalAmount = centsToAmount(MongoOrderCents(d))
       /\ priceToCents(d.totalAmount) = MongoOrderCents(d)
       /\ d.totalAmount # 0

\* A document order of 3 x 0.105 (stored as 0.11) and 2 x 9.50 was placed,
\* total 19.33.
C1_Witness ==
  \E p \in Procs, d \in mongoOrders :
    /\ req[p].kind = "mongoPlace" /\ req[p].status = 200
    /\ d.orderId = req[p].orderId /\ d.orderId = 3
    /\ Len(d.orderItems) = 2
    /\ d.orderItems[1].quantity = 3 /\ d.orderItems[1].unitPrice = 110
    /\ d.totalAmount = 19330

\* C8: in document mode, under every interleaving of place_order requests,
\* no two order documents share an orderId, a request that succeeds adds
\* exactly one document (with the orderId it reports), and an insert
\* rejected as a duplicate adds nothing; no other step adds or removes one.
C8_OneDocumentPerOrderId ==
  [][ /\ \A d, e \in mongoOrders' : d.orderId = e.orderId => d = e
      /\ \A p \in Procs :
           (req[p].kind = "mongoPlace" /\ req[p].pc = "mo_insert" /\ req'[p] # req[p])
             => /\ req'[p].status = 200
                  => /\ Cardinality(mongoOrders') = Cardinality(mongoOrders) + 1
                     /\ mongoOrders \subseteq mongoOrders'
                     /\ \E d \in mongoOrders' \ mongoOrders :
                          d.orderId = req'[p].orderId
                /\ req'[p].dups = req[p].dups + 1 => mongoOrders' = mongoOrders
      /\ (\A p \in Procs : ~(req[p].pc = "mo_insert" /\ req'[p].status = 200))
           => mongoOrders' = mongoOrders ]_vars

\* Two requests read the same highest orderId; one got 3, the other was
\* rejected once and then got 4.
C8_Witness ==
  \E p, q \in Procs :
    /\ req[p].kind = "mongoPlace" /\ req[p].status = 200
    /\ req[q].kind = "mongoPlace" /\ req[q].status = 200
    /\ req[p].dups = 0 /\ req[p].orderId = 3
    /\ req[q].dups = 1 /\ req[q].orderId = 4
    /\ Cardinality({ d \in mongoOrders : d.orderId \in {3, 4} }) = 2

\* C9: the id-allocation loop of document place_order makes at most 5
\* find/insert attempts; an attempt is followed by another only after a
\* duplicate-key rejection; any other store error ends the request at once;
\* the request ends with 'could not allocate a unique orderId' exactly when
\* 5 attempts were rejected as duplicates; while in the loop the request can
\* always take its next step.
C9_AllocationLoopBounded ==
  /\ [](\A p \in Procs :
          LET r == req[p]
          IN r.kind = "mongoPlace" =>
               /\ r.attempt <= MaxAttempts
               /\ r.attempt = r.dups
               /\ r.pc \in {"mo_find", "mo_insert"} =>
                    /\ r.attempt < MaxAttempts
                    /\ ENABLED (MongoPlaceFind(p) \/ MongoPlaceInsert(p))
               /\ r.error = "could not allocate a unique orderId"
                    <=> (r.pc = "done" /\ r.status = 500 /\ r.dups = MaxAttempts)
               /\ r.error = "store error" => r.pc = "done" /\ r.status = 500)
  /\ [][ \A p \in Procs :
           /\ (req[p].pc = "mo_insert" /\ req'[p].pc = "mo_find")
                => /\ MongoDuplicateKey(mongoOrders, req[p].nextId)
                   /\ req'[p].attempt = req[p].attempt + 1
           /\ (req[p].pc \in {"mo_find", "mo_insert"}
                 /\ req'[p].attempt # req[p].attempt)
                => /\ req[p].pc = "mo_insert"
                   /\ MongoDuplicateKey(mongoOrders, req[p].nextId)
           /\ (req[p].pc \in {"mo_find", "mo_insert"}
                 /\ req'[p].error = "store error")
                => req'[p].attempt = req[p].attempt /\ req'[p].pc = "done" ]_vars

\* A request lost the race five times and ended with the fatal error.
C9_Witness ==
  \E p \in Procs :
    /\ req[p].kind = "mongoPlace" /\ req[p].pc = "done"
    /\ req[p].dups = MaxAttempts /\ req[p].status = 500
    /\ req[p].error = "could not allocate a unique orderId"

\* C10: a place_order request that does not succeed leaves no trace: no step
\* of a place_order request other than its successful completion changes the
\* order rows, the order_item rows or the order documents, and no row carries
\* the order id a failed relational request was given.
C10_FailedPlaceLeavesNoTrace ==
  /\ [](\A p \in Procs :
          (req[p].kind = "sqlPlace" /\ req[p].pc = "done" /\ req[p].status # 200)
            => /\ \A o \in sqlOrder : req[p].orderId = 0 \/ o.orderId # req[p].orderId
               /\ \A i \in sqlItem : req[p].orderId = 0 \/ i.orderId # req[p].orderId)
  /\ [][ \A p \in Procs :
           (req'[p] # req[p] /\ req'[p].kind \in PlaceKinds /\ req'[p].status # 200)
             => /\ sqlOrder' = sqlOrder /\ sqlItem' = sqlItem
                /\ mongoOrders' = mongoOrders ]_vars

\* A relational request failed on its second item, after the order row and
\* the first order_item row were inserted: order id 3 was given and is absent.
C10_Witness ==
  \E p \in Procs :
    /\ req[p].kind = "sqlPlace" /\ req[p].pc = "done" /\ req[p].status = 404
    /\ req[p].idx = 2 /\ req[p].orderId = 3
    /\ sqlAuto.order = 4 /\ sqlAuto.item = 4
    /\ \A o \in sqlOrder : o.orderId # 3

\* Migrations and resets with no request in flight: writes of both modes,
\* then a migration or a reset run to completion, then requests again.
Quiet == AllFree /\ ~ MigRunning /\ ~ RstRunning

SeqPayInputs == { << 2, "card" >>, << 1, "cash" >> }

SeqAssignInputs ==
  { << "rider2@example.com", 1, "delivered" >>,
    << "rider1@example.com", 2, "assigned" >> }

SeqPlaceInput(good) == << "customer1@example.com", "Plachutta", << good[1] >> >>

NextAdminSeq ==
  \/ \E p \in Procs, in \in SeqPayInputs :
       started < MaxRequests /\ Quiet /\ SqlPayRead(p, in[1], in[2])
  \/ \E p \in Procs : SqlPayWrite(p)
  \/ \E p \in Procs, in \in SeqAssignInputs :
       started < MaxRequests /\ Quiet /\ SqlAssignRead(p, in[1], in[2], in[3])
  \/ \E p \in Procs : SqlAssignWrite(p)
  \/ \E p \in Procs, in \in SeqPayInputs :
       started < MaxRequests /\ Quiet /\ MongoPayUpdate(p, in[1], in[2])
  \/ \E p \in Procs : MongoPayRead(p)
  \/ \E p \in Procs, in \in SeqAssignInputs :
       started < MaxRequests /\ Quiet /\ MongoAssignRider(p, in[1], in[2], in[3])
  \/ \E p \in Procs : MongoAssignUpdate(p)
  \/ \E p \in Procs :
       /\ started < MaxRequests /\ Quiet
       /\ LET in == SeqPlaceInput(MongoGoodItems)
          IN MongoPlaceBegin(p, in[1], in[2], in[3])
  \/ \E p \in Procs : MongoPlaceFind(p)
  \/ \E p \in Procs : MongoPlaceInsert(p)
  \/ \E p \in Procs : started < MaxRequests /\ Quiet /\ HealthCounts(p)
  \/ \E p \in Procs : HealthMeta(p)
  \/ (Quiet /\ MigrateRead)
  \/ MigrateDeleteRestaurants
  \/ MigrateDeletePeople
  \/ MigrateDeleteOrders
  \/ MigrateInsertRestaurants
  \/ MigrateInsertPeople
  \/ MigrateInsertOrders
  \/ MigrateMeta
  \/ (Quiet /\ ResetDelete)
  \/ ResetInsert
  \/ \E c \in ResetTargets : ResetClear(c)

InitAdmin == InitWith({"ready"}, DemoDeliveries)

SpecAdminSeq == InitAdmin /\ [][NextAdminSeq]_vars

\* Document-mode requests and health checks while migrations run, in any
\* interleaving; a store call of the migration may fail.  No reset runs.
ConcPayInputs == { << 2, "card" >> }

ConcAssignInputs == { << "rider2@example.com", 1, "delivered" >> }

NextMigConc ==
  \/ \E p \in Procs, in \in ConcPayInputs :
       started < MaxRequests /\ MongoPayUpdate(p, in[1], in[2])
  \/ \E p \in Procs : MongoPayRead(p)
  \/ \E p \in Procs, in \in ConcAssignInputs :
       started < MaxRequests /\ MongoAssignRider(p, in[1], in[2], in[3])
  \/ \E p \in Procs : MongoAssignUpdate(p)
  \/ \E p \in Procs :
       /\ started < MaxRequests
       /\ LET in == SeqPlaceInput(MongoGoodItems)
          IN MongoPlaceBegin(p, in[1], in[2], in[3])
  \/ \E p \in Procs : MongoPlaceFind(p)
  \/ \E p \in Procs : MongoPlaceInsert(p)
  \/ \E p \in Procs : started < MaxRequests /\ HealthCounts(p)
  \/ \E p \in Procs : HealthMeta(p)
  \/ MigrateRead
  \/ MigrateDeleteRestaurants
  \/ MigrateDeletePeople
  \/ MigrateDeleteOrders
  \/ MigrateInsertRestaurants
  \/ MigrateInsertPeople
  \/ MigrateInsertOrders
  \/ MigrateMeta
  \/ MigrateFail

\* the generated order is "ready" and was picked up by rider 1
InitMigConc ==
  InitWith({"ready"}, { { d \in del : d.riderId # 0 } : del \in DemoDeliveries } \ {{}})

SpecMigConc == InitMigConc /\ [][NextMigConc]_vars

\* Document-mode place_order requests while one migration runs, in any
\* interleaving; a store call of the migration may fail.
NextMarker ==
  \/ \E p \in Procs :
       /\ started < MaxRequests
       /\ LET in == SeqPlaceInput(MongoGoodItems)
          IN MongoPlaceBegin(p, in[1], in[2], in[3])
  \/ \E p \in Procs : MongoPlaceFind(p)
  \/ \E p \in Procs : MongoPlaceInsert(p)
  \/ (adminOps = 0 /\ MigrateRead)
  \/ MigrateDeleteRestaurants
  \/ MigrateDeletePeople
  \/ MigrateDeleteOrders
  \/ MigrateInsertRestaurants
  \/ MigrateInsertPeople
  \/ MigrateInsertOrders
  \/ MigrateMeta
  \/ MigrateFail

SpecMarker == InitMigConc /\ [][NextMarker]_vars

\* Resets, table by table, between relational requests; one request or
\* reset at a time.
NextClear ==
  \/ \E p \in Procs, in \in SeqPayInputs :
       started < MaxRequests /\ Quiet /\ SqlPayRead(p, in[1], in[2])
  \/ \E p \in Procs : SqlPayWrite(p)
  \/ \E p \in Procs, in \in SeqAssignInputs :
       started < MaxRequests /\ Quiet /\ SqlAssignRead(p, in[1], in[2], in[3])
  \/ \E p \in Procs : SqlAssignWrite(p)
  \/ \E p \in Procs :
       /\ started < MaxRequests /\ Quiet
       /\ LET in == SeqPlaceInput(SqlGoodItems)
          IN SqlPlaceBegin(p, in[1], in[2], in[3])
  \/ \E p \in Procs : SqlPlaceItem(p)
  \/ \E p \in Procs : SqlPlaceCommit(p)
  \/ (Quiet /\ ClearAllBegin)
  \/ ClearAllDelete
  \/ ClearAllCommit
  \/ ResetInsert
  \/ \E c \in ResetTargets : ResetClear(c)

SpecClear == InitAdmin /\ [][NextClear]_vars

\* assign_delivery requests of both modes with the statuses "created" and
\* "delivered", resets and migrations, one at a time.
RiderAssignInputs ==
  {"rider1@example.com", "rider2@example.com"} \X {1, 2} \X {"created", "delivered"}

NextRider ==
  \/ \E p \in Procs, in \in RiderAssignInputs :
       started < MaxRequests /\ Quiet /\ SqlAssignRead(p, in[1], in[2], in[3])
  \/ \E p \in Procs : SqlAssignWrite(p)
  \/ \E p \in Procs, in \in RiderAssignInputs :
       started < MaxRequests /\ Quiet /\ MongoAssignRider(p, in[1], in[2], in[3])
  \/ \E p \in Procs : MongoAssignUpdate(p)
  \/ (Quiet /\ MigrateRead)
  \/ MigrateDeleteRestaurants
  \/ MigrateDeletePeople
  \/ MigrateDeleteOrders
  \/ MigrateInsertRestaurants
  \/ MigrateInsertPeople
  \/ MigrateInsertOrders
  \/ MigrateMeta
  \/ (Quiet /\ ResetDelete)
  \/ ResetInsert
  \/ \E c \in ResetTargets : ResetClear(c)

SpecRider == InitAdmin /\ [][NextRider]_vars

\* Resets, migrations and health checks in any interleaving; the clearing
\* of the document store by a reset may fail, and so may a migration.
\* Health checks only read, so one is in flight at a time.
NextResetConc ==
  \/ \E p \in Procs : started < MaxRequests /\ AllFree /\ HealthCounts(p)
  \/ \E p \in Procs : HealthMeta(p)
  \/ MigrateRead
  \/ MigrateDeleteRestaurants
  \/ MigrateDeletePeople
  \/ MigrateDeleteOrders
  \/ MigrateInsertRestaurants
  \/ MigrateInsertPeople
  \/ MigrateInsertOrders
  \/ MigrateMeta
  \/ MigrateFail
  \/ ResetDelete
  \/ ResetInsert
  \/ \E c \in ResetTargets : ResetClear(c)
  \/ ResetClearFail

SpecResetConc == InitMigConc /\ [][NextResetConc]_vars

\* Reports of both modes after writes of both modes and migrations, one
\* request or migration at a time.
ReportNames == {"Plachutta", "Figlmueller", ""}

ReportRiders == {"rider1@example.com", "rider2@example.com", ""}

ReportTimes == {0, 1, 4}

ReportStatuses == {"", "assigned", "picked_up", "delivered"}

\* the filters of the report requests made
ReportRanges == { << 0, 0 >>, << 2, 4 >> }

RiderReportStatuses == {"", "delivered"}

NextReport ==
  \/ \E p \in Procs, in \in SeqPayInputs :
       started < MaxRequests /\ Quiet /\ SqlPayRead(p, in[1], in[2])
  \/ \E p \in Procs : SqlPayWrite(p)
  \/ \E p \in Procs, in \in SeqAssignInputs :
       started < MaxRequests /\ Quiet /\ SqlAssignRead(p, in[1], in[2], in[3])
  \/ \E p \in Procs : SqlAssignWrite(p)
  \/ \E p \in Procs :
       /\ started < MaxRequests /\ Quiet
       /\ LET in == SeqPlaceInput(SqlGoodItems)
          IN SqlPlaceBegin(p, in[1], in[2], in[3])
  \/ \E p \in Procs : SqlPlaceItem(p)
  \/ \E p \in Procs : SqlPlaceCommit(p)
  \/ \E p \in Procs, in \in SeqPayInputs :
       started < MaxRequests /\ Quiet /\ MongoPayUpdate(p, in[1], in[2])
  \/ \E p \in Procs : MongoPayRead(p)
  \/ \E p \in Procs, in \in SeqAssignInputs :
       started < MaxRequests /\ Quiet /\ MongoAssignRider(p, in[1], in[2], in[3])
  \/ \E p \in Procs : MongoAssignUpdate(p)
  \/ \E p \in Procs :
       /\ started < MaxRequests /\ Quiet
       /\ LET in == SeqPlaceInput(MongoGoodItems)
          IN MongoPlaceBegin(p, in[1], in[2], in[3])
  \/ \E p \in Procs : MongoPlaceFind(p)
  \/ \E p \in Procs : MongoPlaceInsert(p)
  \/ \E p \in Procs, name \in ReportNames, rg \in ReportRanges :
       started < MaxRequests /\ Quiet /\ SqlCustomerReport(p, name, rg[1], rg[2])
  \/ \E p \in Procs, name \in ReportNames, rg \in ReportRanges :
       started < MaxRequests /\ Quiet /\ MongoCustomerReport(p, name, rg[1], rg[2])
  \/ \E p \in Procs, email \in ReportRiders, rg \in ReportRanges,
        st \in RiderReportStatuses :
       /\ started < MaxRequests /\ Quiet
       /\ SqlRiderReport(p, email, rg[1], rg[2], st)
  \/ \E p \in Procs, email \in ReportRiders, rg \in ReportRanges,
        st \in RiderReportStatuses :
       /\ started < MaxRequests /\ Quiet
       /\ MongoRiderReport(p, email, rg[1], rg[2], st)
  \/ (Quiet /\ MigrateRead)
  \/ MigrateDeleteRestaurants
  \/ MigrateDeletePeople
  \/ MigrateDeleteOrders
  \/ MigrateInsertRestaurants
  \/ MigrateInsertPeople
  \/ MigrateInsertOrders
  \/ MigrateMeta

\* order 1 has a delivery, with or without a rider; order 2 has none
InitReport == InitWith({"ready"}, DemoDeliveries \ {{}})

SpecReport == InitReport /\ [][NextReport]_vars

\* Customer reports of both modes after relational orders, payments and
\* migrations, one request or migration at a time.  The second order body
\* takes the two menu items of Plachutta that are both called "Soup".
BreakdownPlaceInputs ==
  { SeqPlaceInput(SqlGoodItems),
    << "customer1@example.com", "Plachutta",
       << [ menuItemId |-> 4, name |-> "", quantity |-> 1 ],
          [ menuItemId |-> 5, name |-> "", quantity |-> 2 ] >> >> }

NextBreakdown ==
  \/ \E p \in Procs, in \in SeqPayInputs :
       started < MaxRequests /\ Quiet /\ SqlPayRead(p, in[1], in[2])
  \/ \E p \in Procs : SqlPayWrite(p)
  \/ \E p \in Procs, in \in BreakdownPlaceInputs :
       started < MaxRequests /\ Quiet /\ SqlPlaceBegin(p, in[1], in[2], in[3])
  \/ \E p \in Procs : SqlPlaceItem(p)
  \/ \E p \in Procs : SqlPlaceCommit(p)
  \/ \E p \in Procs, name \in ReportNames, rg \in ReportRanges :
       started < MaxRequests /\ Quiet /\ SqlCustomerReport(p, name, rg[1], rg[2])
  \/ \E p \in Procs, name \in ReportNames, rg \in ReportRanges :
       started < MaxRequests /\ Quiet /\ MongoCustomerReport(p, name, rg[1], rg[2])
  \/ (Quiet /\ MigrateRead)
  \/ MigrateDeleteRestaurants
  \/ MigrateDeletePeople
  \/ MigrateDeleteOrders
  \/ MigrateInsertRestaurants
  \/ MigrateInsertPeople
  \/ MigrateInsertOrders
  \/ MigrateMeta

SpecBreakdown == InitWith({"ready", "completed"}, {{}}) /\ [][NextBreakdown]_vars

\* Concurrent requests of one mode that read or update existing orders (pay,
\* assign_delivery, the reports) next to place_order and health.
SqlFrameKinds == SqlKinds \cup {"sqlReport", "sqlRiderReport", "health"}

MongoFrameKinds == MongoKinds \cup {"mongoReport", "mongoRiderReport", "health"}

NextFrame ==
  \/ \E p \in Procs, in \in SeqPayInputs :
       started < MaxRequests /\ OneMode(SqlFrameKinds) /\ SqlPayRead(p, in[1], in[2])
  \/ \E p \in Procs : SqlPayWrite(p)
  \/ \E p \in Procs, in \in SeqAssignInputs :
       /\ started < MaxRequests /\ OneMode(SqlFrameKinds)
       /\ SqlAssignRead(p, in[1], in[2], in[3])
  \/ \E p \in Procs : SqlAssignWrite(p)
  \/ \E p \in Procs :
       /\ started < MaxRequests /\ OneMode(SqlFrameKinds)
       /\ LET in == SeqPlaceInput(SqlGoodItems)
          IN SqlPlaceBegin(p, in[1], in[2], in[3])
  \/ \E p \in Procs : SqlPlaceItem(p)
  \/ \E p \in Procs : SqlPlaceCommit(p)
  \/ \E p \in Procs :
       /\ started < MaxRequests /\ OneMode(SqlFrameKinds)
       /\ SqlCustomerReport(p, "Plachutta", 0, 0)
  \/ \E p \in Procs :
       /\ started < MaxRequests /\ OneMode(SqlFrameKinds)
       /\ SqlRiderReport(p, "rider1@example.com", 0, 0, "")
  \/ \E p \in Procs, in \in SeqPayInputs :
       /\ started < MaxRequests /\ OneMode(MongoFrameKinds)
       /\ MongoPayUpdate(p, in[1], in[2])
  \/ \E p \in Procs : MongoPayRead(p)
  \/ \E p \in Procs, in \in SeqAssignInputs :
       /\ started < MaxRequests /\ OneMode(MongoFrameKinds)
       /\ MongoAssignRider(p, in[1], in[2], in[3])
  \/ \E p \in Procs : MongoAssignUpdate(p)
  \/ \E p \in Procs :
       /\ started < MaxRequests /\ OneMode(MongoFrameKinds)
       /\ LET in == SeqPlaceInput(MongoGoodItems)
          IN MongoPlaceBegin(p, in[1], in[2], in[3])
  \/ \E p \in Procs : MongoPlaceFind(p)
  \/ \E p \in Procs : MongoPlaceInsert(p)
  \/ \E p \in Procs :
       /\ started < MaxRequests /\ OneMode(MongoFrameKinds)
       /\ MongoCustomerReport(p, "Plachutta", 0, 0)
  \/ \E p \in Procs :
       /\ started < MaxRequests /\ OneMode(MongoFrameKinds)
       /\ MongoRiderReport(p, "rider1@example.com", 0, 0, "")
  \/ \E p \in Procs : started < MaxRequests /\ HealthCounts(p)
  \/ \E p \in Procs : HealthMeta(p)

SpecFrame == InitWith({"ready"}, DemoDeliveries) /\ [][NextFrame]_vars

\* ---------------------------------------------------------------------
\* Properties of the natural-key lookups

\* the natural keys of a finished request do not all resolve in its store
Unresolved(r) ==
  CASE r.kind = "sqlPlace" ->
         \/ ~ \E x \in SqlPerson : x.role = "customer" /\ x.email = r.email
         \/ ~ \E x \in SqlRestaurant : x.name = r.restaurant
    [] r.kind = "mongoPlace" ->
         \/ ~ \E x \in mongoPeople : x.type = "customer" /\ x.email = r.email
         \/ ~ \E x \in mongoRestaurants : x.name = r.restaurant
    [] r.kind = "sqlPay" -> ~ \E o \in sqlOrder : o.orderId = r.orderId
    [] r.kind = "mongoPay" -> ~ \E d \in mongoOrders : d.orderId = r.orderId
    [] r.kind = "sqlAssign" ->
         \/ ~ \E x \in SqlPerson : x.role = "rider" /\ x.email = r.email
         \/ ~ \E o \in sqlOrder : o.orderId = r.orderId
    [] r.kind = "mongoAssign" ->
         \/ ~ \E x \in mongoPeople : x.type = "rider" /\ x.email = r.email
         \/ ~ \E d \in mongoOrders : d.orderId = r.orderId
    [] OTHER -> FALSE

\* C11: in both modes, the step that answers a place_order, pay or
\* assign_delivery request whose customer email, restaurant name, rider email
\* or order id does not resolve (and whose body passed validation) answers
\* 404, and it changes no table and no collection.
C11_UnresolvedKeyIsNotFound ==
  [][ \A p \in Procs :
        ( /\ req'[p] # req[p] /\ req'[p].pc = "done"
          /\ Unresolved(req'[p]) /\ req'[p].status # 400 )
        => /\ req'[p].status = 404
           /\ UNCHANGED << sqlOrder, sqlItem, sqlPayment, sqlDelivery,
                           mongoPeople, mongoRestaurants, mongoOrders >> ]_vars

\* A document-mode assign_delivery of a known rider to the unknown order 9
\* passed the rider lookup and was answered 404 by the update.
C11_Witness ==
  \E p \in Procs :
    /\ req[p].kind = "mongoAssign" /\ req[p].pc = "done"
    /\ req[p].email = "rider1@example.com" /\ req[p].orderId = 9
    /\ req[p].status = 404 /\ req[p].error = "order not found in mongo"

\* ---------------------------------------------------------------------
\* Properties of assign_delivery: create or update

\* C12: the step in which an assign_delivery request succeeds leaves the
\* order with exactly one delivery, whose rider and deliveryStatus are the
\* request's: a delivery is created when the order had none, the existing
\* one (same deliveryId) is updated otherwise, and the deliveries of other
\* orders are as before.
C12_AssignCreatesOrUpdates ==
  [][ \A p \in Procs :
        /\ ( req[p].kind = "sqlAssign" /\ req[p].pc = "sa_write"
             /\ req'[p].status = 200 )
           => LET before == { x \in sqlDelivery : x.orderId = req[p].orderId }
                  after == { y \in sqlDelivery' : y.orderId = req[p].orderId }
              IN /\ Cardinality(after) = 1
                 /\ \A y \in after :
                      /\ y.deliveryStatus = req[p].arg
                      /\ \E r \in SqlPerson :
                           /\ r.personId = y.riderId /\ r.role = "rider"
                           /\ r.email = req[p].email
                      /\ \A x \in before : x.deliveryId = y.deliveryId
                 /\ sqlDelivery' \ after = sqlDelivery \ before
        /\ ( req[p].kind = "mongoAssign" /\ req[p].pc = "ma_update"
             /\ req'[p].status = 200 )
           => \E d \in mongoOrders, e \in mongoOrders' :
                /\ d.orderId = req[p].orderId /\ e._id = d._id
                /\ e.delivery # Null
                /\ e.delivery.deliveryStatus = req[p].arg
                /\ e.delivery.rider.email = req[p].email
                /\ d.delivery # Null => e.delivery.deliveryId = d.delivery.deliveryId
                /\ [ e EXCEPT !.delivery = d.delivery ] = d
                /\ mongoOrders' \ {e} = mongoOrders \ {d} ]_vars

\* Order 1, delivered so far by rider 1, was re-assigned in document mode to
\* rider 2 as "delivered": its one delivery now names rider 2.
C12_Witness ==
  \E p \in Procs, d \in mongoOrders :
    /\ req[p].kind = "mongoAssign" /\ req[p].status = 200
    /\ req[p].orderId = 1 /\ req[p].sawAssigned
    /\ req[p].email = "rider2@example.com" /\ req[p].arg = "delivered"
    /\ d.orderId = 1 /\ d.delivery # Null
    /\ d.delivery.rider.email = "rider2@example.com"
    /\ d.delivery.deliveryStatus = "delivered" /\ d.delivery.deliveryId = 1

\* ---------------------------------------------------------------------
\* Properties of the migration

\* the document d holds the order row o with its items, payment, delivery
\* and rider, as the relational tables hold them
DocOfRow(d, o, items, payments, deliveries) ==
  LET its == { i \in items : i.orderId = o.orderId }
      pay == { x \in payments : x.orderId = o.orderId }
      del == { x \in deliveries : x.orderId = o.orderId }
  IN /\ d.orderId = o.orderId /\ d.status = o.status
     /\ d.createdAt = o.createdAt /\ d.totalAmount = o.totalAmount
     /\ d.restaurant # Null /\ d.restaurant.restaurantId = o.restaurantId
     /\ d.customer # Null /\ d.customer.personId = o.customerId
     /\ Len(d.orderItems) = Cardinality(its)
     /\ \A i \in its : \E k \in 1..Len(d.orderItems) :
          /\ d.orderItems[k].menuItemId = i.menuItemId
          /\ d.orderItems[k].quantity = i.quantity
          /\ d.orderItems[k].unitPrice = i.unitPrice
     /\ IF pay = {} THEN d.payment = Null
        ELSE /\ d.payment # Null
             /\ \E x \in pay : /\ d.payment.paymentId = x.paymentId
                               /\ d.payment.amount = x.amount
                               /\ d.payment.method = x.method
                               /\ d.payment.paidAt = x.paidAt
     /\ IF del = {} THEN d.delivery = Null
        ELSE /\ d.delivery # Null
             /\ \E x \in del :
                  /\ d.delivery.deliveryId = x.deliveryId
                  /\ d.delivery.deliveryStatus = x.deliveryStatus
                  /\ d.delivery.assignedAt = x.assignedAt
                  /\ IF x.riderId = 0 THEN d.delivery.rider = Null
                     ELSE /\ d.delivery.rider # Null
                          /\ d.delivery.rider.personId = x.riderId

\* C13: when a migration that ran with no request in flight completes, the
\* restaurants, people and orders collections hold exactly one document per
\* restaurant, person and order row (each order with its items, payment,
\* delivery and rider), whatever the collections held before it.
C13_MigrationMirrorsRows ==
  [][ (mig.pc = "m_meta" /\ mig'.pc = "done") =>
        /\ mongoRestaurants' = SqlRestaurant
        /\ Cardinality(mongoPeople') = Cardinality(SqlPerson)
        /\ \A x \in SqlPerson : \E d \in mongoPeople' :
             d.personId = x.personId /\ d.type = x.role /\ d.email = x.email
        /\ Cardinality(mongoOrders') = Cardinality(sqlOrder')
        /\ \A o \in sqlOrder' : \E d \in mongoOrders' :
             DocOfRow(d, o, sqlItem', sqlPayment', sqlDelivery') ]_vars

\* Order 2 was paid in document mode only and order 1 has a rider in the
\* relational store; the migration that followed is complete, and the
\* document of order 2 is unpaid again.
C13_Witness ==
  /\ mig.pc = "done"
  /\ \E p \in Procs : /\ req[p].kind = "mongoPay" /\ req[p].status = 200
                      /\ req[p].orderId = 2
  /\ \E d \in mongoOrders : d.orderId = 2 /\ d.payment = Null
  /\ \E x \in sqlDelivery : x.orderId = 1 /\ x.riderId # 0

\* C14: a migration that completes right after another migration completed,
\* with no request and no reset started in between, leaves the same
\* restaurants and people, the same order documents (their _id aside) and
\* the same marker counts as the one before it.
C14_MigrationIdempotent ==
  [][ ( /\ mig.pc = "m_meta" /\ mig'.pc = "done"
        /\ lastMig.started = started /\ lastMig.adminOps + 1 = adminOps )
      => /\ mongoRestaurants' = lastMig.restaurants
         /\ mongoPeople' = lastMig.people
         /\ { StripId(d) : d \in mongoOrders' } = lastMig.orders
         /\ mongoMeta'.migrated = lastMig.migrated ]_vars

\* Two migrations ran one after the other and nothing else: the second one
\* is complete, with a later timestamp and new _ids.
C14_Witness ==
  /\ mig.pc = "done" /\ adminOps = 2 /\ started = 0 /\ rst.pc = "idle"
  /\ lastMig.adminOps = 2 /\ mongoMeta.lastMigrationAt = 6
  /\ \E d \in mongoOrders : d.orderId = 1 /\ d._id = 5

\* the natural keys of a document-mode request resolve in the relational
\* store, from which every migration fills the collections
ResolvesInSql(r) ==
  CASE r.kind = "mongoPlace" ->
         /\ \E x \in SqlPerson : x.role = "customer" /\ x.email = r.email
         /\ \E x \in SqlRestaurant : x.name = r.restaurant
    [] r.kind = "mongoPay" -> \E o \in sqlOrder : o.orderId = r.orderId
    [] r.kind = "mongoAssign" ->
         /\ \E x \in SqlPerson : x.role = "rider" /\ x.email = r.email
         /\ \E o \in sqlOrder : o.orderId = r.orderId
    [] OTHER -> FALSE

\* C15: a migration replaces the collections atomically for its callers.
\* In behaviours without a reset the collections hold the relational
\* people, restaurants and orders before and after every migration, so no
\* document-mode place_order, pay or assign_delivery whose keys resolve in
\* the relational store is answered 404, and no health check counts zero
\* orders.
C15_MigrationLooksAtomic ==
  [][ \A p \in Procs :
        ( req'[p] # req[p] ) =>
          /\ ( req'[p].pc = "done" /\ ResolvesInSql(req'[p]) )
               => req'[p].status # 404
          /\ ( req'[p].kind = "health" /\ req'[p].pc = "h_meta" )
               => req'[p].amount > 0 ]_vars

\* ---------------------------------------------------------------------
\* Properties of the reset and of the health check

\* a reset has completed and no migration has started since
ResetIsLatest == rst.pc = "done" /\ ~ MigRunning /\ lastMig.adminOps < adminOps

\* C16: once a reset that followed a migration has completed, and until the
\* next migration, there is no marker and the restaurants, people and
\* orders collections are empty, and a health check made then reports "sql".
C16_ResetClearsMigration ==
  /\ [] ( ResetIsLatest =>
            /\ mongoMeta = Null
            /\ mongoRestaurants = {} /\ mongoPeople = {} /\ mongoOrders = {} )
  /\ [][ \A p \in Procs :
           ( /\ ResetIsLatest /\ req[p].kind = "health" /\ req[p].pc = "h_meta"
             /\ req'[p].pc = "done" )
           => req'[p].out.activeMode = "sql" ]_vars

\* The store was migrated, then reset; the health check that followed counted
\* no orders, found no marker and answered "sql".
C16_Witness ==
  /\ ResetIsLatest /\ lastMig.migrated.orders = 2
  /\ \E p \in Procs :
       /\ req[p].kind = "health" /\ req[p].pc = "done"
       /\ req[p].out.activeMode = "sql" /\ req[p].out.orders = 0
       /\ req[p].out.migration = Null

\* C17: the marker never outlives a reset.  Whenever no reset and no
\* migration is in progress and a reset has committed its relational part
\* (its clearing of the document store having succeeded or failed), a marker
\* in meta means that the order documents come from the order rows of that
\* reset: every document has the id and the creation time of an order row.
C17_MarkerNeverStale ==
  ( /\ ~ MigRunning /\ ~ RstRunning
    /\ rst.pc \in {"done", "failed"}
    /\ mongoMeta # Null )
  => \A d \in mongoOrders : \E o \in sqlOrder :
       o.orderId = d.orderId /\ o.createdAt = d.createdAt

\* C18: a health check answers "mongo" if and only if the marker it read
\* exists and the orders collection held at least one document when it
\* counted, and "sql" otherwise; with the marker of a migration of zero
\* orders and an empty orders collection it answers "sql".
C18_HealthMode ==
  /\ [][ \A p \in Procs :
           ( req'[p].kind = "health" /\ req'[p].pc = "h_meta" /\ req'[p] # req[p] )
           => req'[p].amount = Cardinality(mongoOrders) ]_vars
  /\ [][ \A p \in Procs :
           ( req[p].kind = "health" /\ req[p].pc = "h_meta" /\ req'[p].pc = "done" )
           => /\ req'[p].out.activeMode \in {"mongo", "sql"}
              /\ req'[p].out.activeMode = "mongo"
                   <=> ( mongoMeta # Null /\ req[p].amount > 0 ) ]_vars

\* A migration that read the order table while a reset had emptied it wrote
\* a marker for zero orders; the health check that followed answered "sql".
C18_Witness ==
  \E p \in Procs :
    /\ req[p].kind = "health" /\ req[p].pc = "done"
    /\ req[p].out.migration # Null
    /\ req[p].out.migration.migrated.orders = 0
    /\ req[p].out.orders = 0 /\ req[p].out.activeMode = "sql"

\* ---------------------------------------------------------------------
\* Properties of the reports

\* no migration is running, and both stores are as the last completed
\* migration left them
AsMigrated ==
  /\ ~ MigRunning
  /\ lastMig.sql = sqlVars
  /\ lastMig.restaurants = mongoRestaurants /\ lastMig.people = mongoPeople
  /\ lastMig.orders = { StripId(d) : d \in mongoOrders }

\* C19: while both stores are as a migration left them, the reports of the
\* two modes agree for every filter: the customer report on the order count
\* and the total revenue per restaurant and date range, the rider report on
\* the delivery count and the total revenue per rider, date range and
\* delivery status.
C19_ReportsAgreeAfterMigration ==
  AsMigrated =>
    \A from \in ReportTimes, to \in ReportTimes :
      /\ \A name \in ReportNames \ {""} :
           LET a == SqlCustomerSummary(name, from, to)
               b == MongoCustomerSummary(name, from, to)
           IN a.totalOrders = b.totalOrders /\ a.totalRevenue = b.totalRevenue
      /\ \A email \in ReportRiders \ {""}, st \in ReportStatuses :
           LET a == SqlRiderSummary(email, from, to, st)
               b == MongoRiderSummary(email, from, to, st)
           IN /\ a.totalDeliveries = b.totalDeliveries
              /\ a.totalRevenue = b.totalRevenue

\* An order was placed in relational mode and the store migrated; the
\* document-mode customer report made right after counts three orders of
\* Plachutta, as the relational summary does, and rider 1 has a delivery.
C19_Witness ==
  /\ AsMigrated /\ mig.pc = "done"
  /\ \E p \in Procs :
       /\ req[p].kind = "mongoReport" /\ req[p].status = 200
       /\ req[p].restaurant = "Plachutta" /\ req[p].from = 0 /\ req[p].to = 0
       /\ req[p].out.totalOrders = 3
  /\ SqlCustomerSummary("Plachutta", 0, 0).totalOrders = 3
  /\ SqlRiderSummary("rider1@example.com", 0, 0, "").totalDeliveries = 1

\* the orders a customer report of mode kind matches, each with the paidAt
\* of its payment (0 when it has no payment or the payment has no paidAt)
ReportedPaidAt(kind, name, from, to) ==
  IF kind = "sqlReport"
  THEN { << o.orderId, SqlPaidAtOf(o) >> : o \in SqlReportOrders(name, from, to) }
  ELSE { << d.orderId, IF d.payment = Null THEN 0 ELSE d.payment.paidAt >> :
           d \in MongoReportOrders(name, from, to) }

\* C20: in both modes the customer report's paidOrders is the number of
\* matching orders whose payment has paidAt set, unpaidOrders the number of
\* those with no payment or a payment without paidAt (so an order placed
\* and not yet paid is unpaid), and the two add up to totalOrders.
C20_PaidAndUnpaidCounts ==
  [][ \A p \in Procs :
        ( /\ req'[p] # req[p] /\ req'[p].kind \in {"sqlReport", "mongoReport"}
          /\ req'[p].status = 200 )
        => LET r == req'[p]
               m == ReportedPaidAt(r.kind, r.restaurant, r.from, r.to)
           IN /\ r.out.paidOrders = Cardinality({ x \in m : x[2] # 0 })
              /\ r.out.unpaidOrders = Cardinality({ x \in m : x[2] = 0 })
              /\ r.out.paidOrders + r.out.unpaidOrders = r.out.totalOrders ]_vars

\* the ids of the orders whose delivery now references the rider with this
\* email, in the store of a rider report of mode kind, with the creation
\* time of the order and the status of the delivery
DeliveriesOfRider(kind, email) ==
  IF kind = "sqlRiderReport"
  THEN { << d.orderId, SqlOrderOf(d).createdAt, d.deliveryStatus >> :
           d \in { x \in sqlDelivery :
                     \E r \in SqlPerson : r.personId = x.riderId /\ r.email = email } }
  ELSE { << d.orderId, d.createdAt, d.delivery.deliveryStatus >> :
           d \in { x \in mongoOrders :
                     /\ x.delivery # Null /\ x.delivery.rider # Null
                     /\ x.delivery.rider.email = email } }

\* C21: in both modes the rider report counts exactly the orders whose
\* delivery now references the rider and that pass the date and status
\* filters; an order re-assigned from one rider to another is counted for
\* the new rider and no longer for the old one.
C21_RiderReportFollowsAssignment ==
  [][ \A p \in Procs :
        ( /\ req'[p] # req[p]
          /\ req'[p].kind \in {"sqlRiderReport", "mongoRiderReport"}
          /\ req'[p].status = 200 )
        => LET r == req'[p]
           IN r.out.totalDeliveries =
                Cardinality({ x \in DeliveriesOfRider(r.kind, r.email) :
                                /\ r.from = 0 \/ x[2] >= r.from
                                /\ r.to = 0 \/ x[2] <= r.to
                                /\ r.arg = "" \/ x[3] = r.arg }) ]_vars

\* Order 1, assigned to rider 1 at time 3, was re-assigned to rider 2 in
\* document mode; the report for rider 1 that followed counts no delivery.
C21_Witness ==
  /\ \E d \in mongoOrders :
       /\ d.orderId = 1 /\ d.delivery # Null /\ d.delivery.assignedAt = 3
       /\ d.delivery.rider # Null /\ d.delivery.rider.email = "rider2@example.com"
  /\ \E p \in Procs :
       /\ req[p].kind = "mongoRiderReport" /\ req[p].status = 200
       /\ req[p].email = "rider1@example.com" /\ req[p].arg = ""
       /\ req[p].from = 0 /\ req[p].out.totalDeliveries = 0

\* ---------------------------------------------------------------------
\* Properties of assign_delivery: status and rider

\* the delivery of order orderId in the store of an assign request of mode
\* kind: << status, rider's personId (0: none), assignedAt >>, or the empty set
DeliveryIn(kind, orderId, deliveries, orders) ==
  IF kind = "sqlAssign"
  THEN { << x.deliveryStatus, x.riderId, x.assignedAt >> :
           x \in { y \in deliveries : y.orderId = orderId } }
  ELSE { << d.delivery.deliveryStatus,
            IF d.delivery.rider = Null THEN 0 ELSE d.delivery.rider.personId,
            d.delivery.assignedAt >> :
           d \in { y \in orders : y.orderId = orderId /\ y.delivery # Null } }

\* C22: with one request at a time, an assign_delivery request with a
\* non-empty deliveryStatus that names an existing rider and an existing
\* order succeeds and leaves the delivery with the requested status,
\* whatever the status of the delivery was (any status may follow any other).
C22_AssignAnyStatus ==
  [][ \A p \in Procs :
        ( /\ req'[p] # req[p] /\ req'[p].pc = "done"
          /\ req'[p].kind \in {"sqlAssign", "mongoAssign"}
          /\ req'[p].arg # "" /\ ~ Unresolved(req'[p]) )
        => /\ req'[p].status = 200
           /\ DeliveryIn(req'[p].kind, req'[p].orderId, sqlDelivery', mongoOrders') # {}
           /\ \A x \in DeliveryIn(req'[p].kind, req'[p].orderId,
                                  sqlDelivery', mongoOrders') :
                x[1] = req'[p].arg ]_vars

\* Order 1 had an assigned delivery; the second of two relational requests
\* moved it back to "created", and the row has that status and a rider.
C22_Witness ==
  /\ started = 2
  /\ \E p \in Procs :
       /\ req[p].kind = "sqlAssign" /\ req[p].status = 200
       /\ req[p].orderId = 1 /\ req[p].arg = "created" /\ req[p].sawAssigned
  /\ \E x \in sqlDelivery :
       x.orderId = 1 /\ x.deliveryStatus = "created" /\ x.riderId # 0

\* ---------------------------------------------------------------------
\* Properties of place_order: the menu item of an item

\* items of a relational place_order by id and by name: a name one row of
\* Plachutta has, a name two rows have, a name only Figlmueller has
MenuItems ==
  { [ menuItemId |-> 2, name |-> "", quantity |-> 1 ],
    [ menuItemId |-> 4, name |-> "", quantity |-> 2 ],
    [ menuItemId |-> 1, name |-> "", quantity |-> 1 ],
    [ menuItemId |-> 0, name |-> "Coffee", quantity |-> 2 ],
    [ menuItemId |-> 0, name |-> "Soup", quantity |-> 1 ],
    [ menuItemId |-> 0, name |-> "Beer", quantity |-> 1 ] }

MenuInputs ==
  {"customer1@example.com"} \X {"Plachutta", "Figlmueller"}
    \X ({ << it >> : it \in MenuItems }
          \cup { << SqlGoodItems[1], it >> : it \in MenuItems })

\* relational place_order requests, one at a time
NextMenu ==
  \/ \E p \in Procs, in \in MenuInputs :
       /\ started < MaxRequests /\ AllFree
       /\ SqlPlaceBegin(p, in[1], in[2], in[3])
  \/ \E p \in Procs : SqlPlaceItem(p)
  \/ \E p \in Procs : SqlPlaceCommit(p)
  \/ \E p \in Procs : SqlStoreError(p)

SpecMenu == InitPlace /\ [][NextMenu]_vars

\* the turn of the item loop of request p took the menu item m
ItemAccepted(p, it, m) ==
  /\ req'[p].pc \in {"so_item", "so_commit"}
  /\ req'[p].idx = req[p].idx + 1
  /\ \E row \in req'[p].txItem \ req[p].txItem :
       /\ row.orderId = req[p].orderId
       /\ row.menuItemId = m /\ row.quantity = it.quantity
       /\ \E x \in SqlMenuItem :
            /\ x.menuItemId = m /\ x.restaurantId = req[p].restaurantId
            /\ row.unitPrice = x.price

\* the turn of the item loop ended request p with status, and the order of
\* the request is in no table
ItemRefused(p, status) ==
  /\ req'[p].pc = "done" /\ req'[p].status = status
  /\ sqlOrder' = sqlOrder /\ sqlItem' = sqlItem
  /\ ~ \E o \in sqlOrder' : o.orderId = req[p].orderId
  /\ ~ \E x \in sqlItem' : x.orderId = req[p].orderId

\* C23: every turn of the item loop of a relational place_order that the
\* store lets through (no 500) takes, for an item given by name only, the
\* one menu item of the restaurant with that name, answers 400 when two or
\* more rows of the restaurant have the name and 404 when none has; for an
\* item given by id it takes that menu item when it is one of the
\* restaurant and answers 404 otherwise.  A refused request leaves no order
\* and no order item.
C23_ItemResolution ==
  [][ \A p \in Procs :
        LET r == req[p]
            it == r.items[r.idx]
            named == { m \in SqlMenuItem :
                         m.restaurantId = r.restaurantId /\ m.name = it.name }
            owned == { m \in SqlMenuItem :
                         m.restaurantId = r.restaurantId
                           /\ m.menuItemId = it.menuItemId }
        IN ( /\ r.kind = "sqlPlace" /\ r.pc = "so_item"
             /\ req'[p] # r /\ req'[p].status # 500
             /\ it.quantity > 0 /\ (it.menuItemId # 0 \/ it.name # "") )
           => IF it.menuItemId # 0
              THEN IF owned # {} THEN ItemAccepted(p, it, it.menuItemId)
                   ELSE ItemRefused(p, 404)
              ELSE IF Cardinality(named) = 1
                   THEN ItemAccepted(p, it, (CHOOSE m \in named : TRUE).menuItemId)
                   ELSE IF named = {} THEN ItemRefused(p, 404)
                   ELSE ItemRefused(p, 400) ]_vars

\* a request whose second item names "Soup", the name of two menu items of
\* Plachutta, was answered 400 after its first item was taken, and no order
\* of it exists
C23_Witness ==
  \E p \in Procs :
    /\ req[p].kind = "sqlPlace" /\ req[p].pc = "done"
    /\ req[p].restaurant = "Plachutta" /\ req[p].idx = 2
    /\ req[p].status = 400 /\ req[p].error = "menu item name is not unique"
    /\ ~ \E o \in sqlOrder : o.orderId = req[p].orderId
\* ---------------------------------------------------------------------
\* Properties of the breakdowns of the customer report

\* the item names and quantities of a set of top-item groups, as a bag
NamedQuantities(groups) ==
  LET row(g) == << g.itemName, g.totalQuantity >>
  IN [ x \in { row(g) : g \in groups } |->
         Cardinality({ g \in groups : row(g) = x }) ]

\* the methods and counts of the rows of a payment method breakdown
MethodCounts(rows) == { << x.method, x.count >> : x \in rows }

\* C24: while both stores are as a migration left them, the breakdowns of the
\* customer reports of the two modes agree for every restaurant and date
\* range: the same statuses with the same counts, the same payment methods
\* with the same counts of paid orders, and the same top items (at most 5,
\* by descending quantity) with the same names and quantities, also when two
\* menu items of the restaurant have one name.
C24_BreakdownsAgreeAfterMigration ==
  AsMigrated =>
    \A name \in ReportNames \ {""}, from \in ReportTimes, to \in ReportTimes :
      /\ SqlByStatus(name, from, to) = MongoByStatus(name, from, to)
      /\ MethodCounts(SqlByPaymentMethod(name, from, to))
           = MethodCounts(MongoByPaymentMethod(name, from, to))
      /\ { NamedQuantities(g) : g \in SqlTopItems(name, from, to) }
           = { NamedQuantities(g) : g \in MongoTopItems(name, from, to) }
\* ---------------------------------------------------------------------
\* Properties of the content of an order

\* the total and the order_item rows of the relational order orderId
SqlContent(orders, items, orderId) ==
  << { o.totalAmount : o \in { x \in orders : x.orderId = orderId } },
     { << i.orderItemId, i.menuItemId, i.quantity, i.unitPrice >> :
         i \in { x \in items : x.orderId = orderId } } >>

\* the total and the embedded items of the order document with this _id
MongoContent(orders, id) ==
  { << d.totalAmount, d.orderItems >> : d \in { x \in orders : x._id = id } }

\* requests that read or update existing orders
FrameKinds ==
  {"sqlPay", "mongoPay", "sqlAssign", "mongoAssign", "sqlReport", "mongoReport",
   "sqlRiderReport", "mongoRiderReport", "health"}

\* C25: no step of a pay, assign_delivery, report or health request, in
\* either mode and next to other requests, changes the items (menu item,
\* quantity, unit price) or the total of an order that exists; and when a pay
\* request has written the payment, the amount of the payment is the total
\* of the order.
C25_OrderContentImmutable ==
  [][ \A p \in Procs :
        (req'[p] # req[p] /\ req'[p].kind \in FrameKinds)
        => /\ \A o \in sqlOrder :
                SqlContent(sqlOrder', sqlItem', o.orderId)
                  = SqlContent(sqlOrder, sqlItem, o.orderId)
           /\ \A d \in mongoOrders :
                MongoContent(mongoOrders', d._id) = MongoContent(mongoOrders, d._id)
           /\ ( req[p].kind = "sqlPay" /\ req[p].pc = "sp_write"
                  /\ req'[p].status = 200 )
              => \E x \in sqlPayment', o \in sqlOrder' :
                   /\ x.orderId = req[p].orderId /\ o.orderId = req[p].orderId
                   /\ x.amount = o.totalAmount /\ req'[p].out.amount = o.totalAmount
           /\ ( req'[p].kind = "mongoPay" /\ req'[p].pc = "mp_read"
                  /\ req[p].pc # "mp_read" )
              => \A d \in mongoOrders' :
                   d.orderId = req'[p].orderId
                     => d.payment # Null /\ d.payment.amount = d.totalAmount ]_vars

\* order 2 (two coffees, total 7.00) was paid in document mode next to an
\* assign_delivery: the payment has the total of the order as amount, and
\* the order still has its one item
C25_Witness ==
  /\ \E d \in mongoOrders :
       /\ d.orderId = 2 /\ d.payment # Null /\ d.payment.amount = 7000
       /\ d.totalAmount = 7000 /\ Len(d.orderItems) = 1
  /\ \E p \in Procs :
       req[p].kind = "mongoPay" /\ req[p].orderId = 2 /\ req[p].status = 200
  /\ \E q \in Procs : req[q].kind = "mongoAssign" /\ req[q].status = 200
\* ---------------------------------------------------------------------
\* Properties of the migration marker

\* C26: a migration writes the marker only when it has cleared the three
\* collections and each of its three bulk inserts has inserted every document
\* of the snapshot, and the counts of the marker are the numbers of documents
\* it inserted; a step in which a migration fails leaves the marker as it was.
C26_MarkerAfterInserts ==
  [][ /\ (mongoMeta' # mongoMeta /\ mongoMeta' # Null)
         => /\ mig.pc = "m_meta" /\ mig'.pc = "done"
            /\ mig.cleared = {"restaurants", "people", "orders"}
            /\ mig.inserted.restaurants = Cardinality(mig.snap.restaurants)
            /\ mig.inserted.people = Cardinality(mig.snap.people)
            /\ mig.inserted.orders = Cardinality(mig.snap.orders)
            /\ mongoMeta'.migrated = mig.inserted
      /\ (mig'.pc = "failed" /\ mig.pc # "failed") => mongoMeta' = mongoMeta
    ]_vars

\* a migration has written a new marker with the two orders it inserted,
\* while the collection holds a third order placed during the migration
C26_Witness ==
  /\ mig.pc = "done" /\ mongoMeta # Null
  /\ mongoMeta.lastMigrationAt > 4
  /\ mongoMeta.migrated = [ restaurants |-> 2, people |-> 3, orders |-> 2 ]
  /\ Cardinality(mongoOrders) = 3
\* ---------------------------------------------------------------------
\* Properties of the reset of the relational store

\* C27: whenever the reset empties a table, it has already emptied every
\* table that has a foreign key referencing that table.
C27_DeleteOrderFkSafe ==
  [][ \A t \in SqlTables :
        (rst.pc = "r_delete" /\ t \in rst.todo /\ t \notin rst'.todo)
        => \A fk \in SqlForeignKeys :
             (fk[2] = t /\ fk[1] # t) => fk[1] \notin rst.todo ]_vars

\* a reset that follows a place_order has emptied the six tables that
\* reference others (order last of them) and is about to empty menu_item
C27_Witness ==
  /\ rst.pc = "r_delete"
  /\ rst.todo = {"menu_item", "category", "restaurant", "customer", "rider", "person"}
  /\ \E o \in sqlOrder : o.orderId = 3
\* ---------------------------------------------------------------------
\* Properties of the rider and the assignment time of a delivery

\* every delivery row and every embedded delivery has a rider exactly when
\* it has an assignment time
RiderIffAssignedAt ==
  /\ \A x \in sqlDelivery : (x.riderId # 0) <=> (x.assignedAt # 0)
  /\ \A d \in mongoOrders :
       d.delivery # Null
         => ((d.delivery.rider # Null) <=> (d.delivery.assignedAt # 0))

\* C28: in every state reached by resets, migrations and assign_delivery
\* requests of both modes, a delivery has a rider exactly when its assignedAt
\* is set; and every assign_delivery that succeeds, whatever its status
\* ("created" too), leaves the delivery of the order with a rider and with
\* assignedAt set.
C28_RiderIffAssignedAt ==
  /\ []RiderIffAssignedAt
  /\ [][ \A p \in Procs :
           ( /\ req'[p] # req[p] /\ req'[p].kind \in {"sqlAssign", "mongoAssign"}
             /\ req'[p].pc = "done" /\ req'[p].status = 200 )
           => LET del == DeliveryIn(req'[p].kind, req'[p].orderId,
                                    sqlDelivery', mongoOrders')
              IN /\ del # {}
                 /\ \A x \in del : x[1] = req'[p].arg /\ x[2] # 0 /\ x[3] # 0 ]_vars

\* after a reset, order 1 of the generator has been given to rider 1 with
\* status "created" in relational mode: the row has the rider and the time
\* of the generated assignment
C28_Witness ==
  /\ rst.pc = "done"
  /\ \E p \in Procs :
       /\ req[p].kind = "sqlAssign" /\ req[p].status = 200 /\ req[p].arg = "created"
       /\ req[p].orderId = 1
  /\ \E x \in sqlDelivery :
       /\ x.orderId = 1 /\ x.deliveryStatus = "created"
       /\ x.riderId = 2 /\ x.assignedAt # 0
\* ---------------------------------------------------------------------
\* Properties of concurrent relational pay requests

\* the answered relational pay requests for order 2 (unpaid at the start)
\* that name a payment method
PaidTwice ==
  { p \in Procs : /\ req[p].kind = "sqlPay" /\ req[p].pc = "done"
                  /\ req[p].orderId = 2 /\ req[p].arg # "" }

\* C29: when two relational pay requests for one unpaid order have run
\* concurrently and both are answered, exactly one of them succeeded, the
\* other was answered 409 (Conflict), and the order has exactly one payment
\* row, with the method of the request that succeeded.
C29_ConcurrentPayOneWins ==
  (Cardinality(PaidTwice) >= 2 /\ started = Cardinality(PaidTwice))
  => \E w \in PaidTwice :
       /\ req[w].status = 200
       /\ \A q \in PaidTwice \ {w} : req[q].status = 409
       /\ \E x \in sqlPayment :
            /\ x.orderId = 2 /\ x.method = req[w].arg
            /\ \A y \in sqlPayment : y.orderId = 2 => y = x
\* ---------------------------------------------------------------------
\* Properties of withTx

\* the positions of the calls of this name in a log
CallsOf(log, name) == { i \in 1..Len(log) : log[i][1] = name }

\* C30: a call of withTx releases its connection at most once at any time,
\* and when the call is over and had a connection, exactly once, as the last
\* call on it; commit is called only after the callback has returned;
\* whenever the callback or the commit threw, rollback was called after it
\* and before the release.  This holds on every path: the callback returns
\* or throws, beginTransaction, commit or rollback fails.
C30_WithTxReleasesOnce ==
  \A p \in Procs :
    req[p].kind = "withTx"
    => LET log == req[p].items
       IN /\ Cardinality(CallsOf(log, "release")) <= 1
          /\ \A i \in CallsOf(log, "commit") :
               \E j \in 1..(i - 1) : log[j] = TxCall("fn", TRUE)
          /\ ( req[p].pc = "done" /\ log[1] = TxCall("getConnection", TRUE) )
             => /\ CallsOf(log, "release") = { Len(log) }
                /\ \A j \in 1..Len(log) :
                     log[j] \in { TxCall("fn", FALSE), TxCall("commit", FALSE) }
                       => \E k \in CallsOf(log, "rollback") : j < k /\ k < Len(log)

\* a call whose callback returned, whose commit failed and whose rollback
\* failed too: the connection was released after the rollback
C30_Witness ==
  \E p \in Procs :
    /\ req[p].kind = "withTx" /\ req[p].pc = "done" /\ req[p].status = 500
    /\ req[p].items =
         << TxCall("getConnection", TRUE), TxCall("beginTransaction", TRUE),
            TxCall("fn", TRUE), TxCall("commit", FALSE),
            TxCall("rollback", FALSE), TxCall("release", TRUE) >>
====
